---- MODULE Spec2Model ----
(***************************************************************************)
(* A model of chem-tetris: the SMILES pattern parser and the sub-graph     *)
(* matcher (src/src/app/game/smiles.ts), the GameEngine class              *)
(* (src/unnamed/part_001), the useGameEngine hook with its timers          *)
(* (src/src/hooks/useSharedSync.tsx) and the lobby and garbage queue of    *)
(* useMultiplayerSync (src/src/hooks/useMultiplayerSync.ts).               *)
(*                                                                         *)
(* Conventions.  JavaScript arrays are 0-based; TLA+ sequences are 1-based.*)
(* Board rows and columns keep the source's 0-based indices (the board is  *)
(* a function on 0..height-1 and 0..width-1).  Pattern nodes are numbered  *)
(* 1..n here for the source's 0..n-1, and 0 stands for the source's        *)
(* `null` node index.  A pattern string is a sequence of one-character     *)
(* strings.  `null` candidates and `null` active pieces are records of the *)
(* same shape as the real ones (NullMatch, NullActive).                    *)
(***************************************************************************)
EXTENDS Integers, Sequences, FiniteSets, TLC

VARIABLES
    \* the matcher's inputs and result (SpecMatch)
    mWidth, mHeight, mBoard, mPattern, mResult, mDone,
    \* a GameEngine instance, and a record of the last call made on it
    engine, lastCall, ops,
    \* useGameEngine: its refs and React state, the garbage events its
    \* consumeGarbage callback will return next, how many have arrived, and a
    \* record of what the last handler did
    tickId, highlightTimeoutRef, overlay, hasStarted, showHelp, preHelpRunningRef,
    isDead, inbox, arrived, evt,
    \* the timers of window.setInterval and window.setTimeout not yet cleared
    \* or fired
    timers,
    \* useMultiplayerSync, one instance per player: the lobby, each client's
    \* copy of the synced garbage queue, the copy its current consumeGarbage
    \* callback closed over, its processedGarbageIds, the queue values on their
    \* way to the other clients, and a record of the events sent and returned
    lobby, garbageQueue, renderedQueue, processedGarbageIds, net, sentEvents,
    returned, lastSync,
    \* playerStates: the synced state of the four player slots (its status),
    \* and the players
    \* whose game has ended (not read by the hook)
    slotStates, gameOvers,
    \* the arguments and the result of a call of selectTarget, and of a call of
    \* parseSmilesGraph
    tInput, tTarget, pInput, pGraph, pDone,
    \* Activity: the arguments and closure of handleMatchMolecule, the shared
    \* garbage queue it appends to, and whether it has run (SpecAttack)
    aInput, aQueue, aDone,
    \* the complete assignments search() has reached so far in one call of
    \* findBestMatchForGraph, and its closure's best and seen (SpecPick)
    kOffered, kSt

matchVars == <<mWidth, mHeight, mBoard, mPattern, mResult, mDone>>

engineVars == <<engine, lastCall, ops>>

hookVars ==
    <<tickId, highlightTimeoutRef, overlay, hasStarted, showHelp, preHelpRunningRef,
      isDead, inbox, arrived, evt, timers>>

syncVars ==
    <<lobby, garbageQueue, renderedQueue, processedGarbageIds, net, sentEvents,
      returned, lastSync, slotStates, gameOvers>>

pureVars == <<tInput, tTarget, pInput, pGraph, pDone, aInput, aQueue, aDone, kOffered, kSt>>

vars ==
    <<mWidth, mHeight, mBoard, mPattern, mResult, mDone, engine, lastCall, ops,
      tickId, highlightTimeoutRef, overlay, hasStarted, showHelp, preHelpRunningRef,
      isDead, inbox, arrived, evt, timers, lobby, garbageQueue, renderedQueue,
      processedGarbageIds, net, sentEvents, returned, lastSync, slotStates,
      gameOvers, tInput, tTarget, pInput, pGraph, pDone, aInput, aQueue, aDone,
      kOffered, kSt>>

----------------------------------------------------------------------------
(* Cells *)

Empty == "."

Carbon == "C"

Oxygen == "O"

Garbage == "G"

Cell == {Empty, Carbon, Oxygen, Garbage}

Atom == {Carbon, Oxygen}

Coord(x, y) == [x |-> x, y |-> y]

Abs(n) == IF n < 0 THEN -n ELSE n

Manhattan(a, b) == Abs(a.x - b.x) + Abs(a.y - b.y)

EmptyBoardOf(w, h) == [y \in 0..(h - 1) |-> [x \in 0..(w - 1) |-> Empty]]

----------------------------------------------------------------------------
(* smiles.ts: createCandidate, pickBetter *)

directionsNoUp == << Coord(1, 0), Coord(-1, 0), Coord(0, 1), Coord(0, 1) >>

directions == << Coord(1, 0), Coord(-1, 0), Coord(0, 1), Coord(0, -1) >>

NullMatch == [coords |-> <<>>, maxY |-> -1, minX |-> -1, signature |-> <<>>]

IsNull(m) == m.coords = <<>>

\* The decimal digits of a natural number, as character codes ('0' = 48).
RECURSIVE StrOfNat(_)
StrOfNat(n) ==
    IF n < 10 THEN << 48 + n >> ELSE StrOfNat(n \div 10) \o << 48 + (n % 10) >>

\* `${c.y}:${c.x}` (':' = 58)
CoordStr(c) == StrOfNat(c.y) \o << 58 >> \o StrOfNat(c.x)

\* the comparator (a, b) => a.y - b.y || a.x - b.x is negative or zero
CoordLeq(a, b) == a.y < b.y \/ (a.y = b.y /\ a.x <= b.x)

RECURSIVE InsertSorted(_, _)
InsertSorted(s, c) ==
    IF s = <<>> THEN << c >>
    ELSE IF CoordLeq(s[Len(s)], c) THEN Append(s, c)
    ELSE Append(InsertSorted(SubSeq(s, 1, Len(s) - 1), c), s[Len(s)])

\* Array.prototype.sort with that comparator (stable)
RECURSIVE SortCoords(_)
SortCoords(s) ==
    IF s = <<>> THEN <<>>
    ELSE InsertSorted(SortCoords(SubSeq(s, 1, Len(s) - 1)), s[Len(s)])

\* .map(...).join('|')  ('|' = 124)
RECURSIVE JoinCoords(_)
JoinCoords(s) ==
    IF s = <<>> THEN <<>>
    ELSE IF Len(s) = 1 THEN CoordStr(s[1])
    ELSE CoordStr(s[1]) \o << 124 >> \o JoinCoords(Tail(s))

Signature(coords) == JoinCoords(SortCoords(coords))

\* JavaScript's a < b on strings: code units compared left to right, a proper
\* prefix being smaller.
RECURSIVE StrLess(_, _)
StrLess(a, b) ==
    IF b = <<>> THEN FALSE
    ELSE IF a = <<>> THEN TRUE
    ELSE IF a[1] < b[1] THEN TRUE
    ELSE IF a[1] > b[1] THEN FALSE
    ELSE StrLess(Tail(a), Tail(b))

RECURSIVE MaxYOf(_)
MaxYOf(s) ==
    IF Len(s) = 1 THEN s[1].y
    ELSE LET m == MaxYOf(Tail(s)) IN IF s[1].y > m THEN s[1].y ELSE m

RECURSIVE MinXOf(_)
MinXOf(s) ==
    IF Len(s) = 1 THEN s[1].x
    ELSE LET m == MinXOf(Tail(s)) IN IF s[1].x < m THEN s[1].x ELSE m

\* coords is never empty where the program calls createCandidate (the matcher
\* returns before for an empty graph), so -Infinity/Infinity never show.
createCandidate(coords) ==
    [coords |-> coords, maxY |-> MaxYOf(coords), minX |-> MinXOf(coords),
     signature |-> Signature(coords)]

pickBetterHighest(a, b) ==
    IF IsNull(a) THEN b
    ELSE IF IsNull(b) THEN a
    ELSE IF b.maxY < a.maxY THEN b
    ELSE IF b.maxY > a.maxY THEN a
    ELSE IF b.minX < a.minX THEN b
    ELSE IF b.minX > a.minX THEN a
    ELSE IF StrLess(b.signature, a.signature) THEN b ELSE a

\* lines 22-33 without the comparison of signatures
pickBetterNoSignature(a, b) ==
    IF IsNull(a) THEN b
    ELSE IF IsNull(b) THEN a
    ELSE IF b.maxY > a.maxY THEN b
    ELSE IF b.maxY < a.maxY THEN a
    ELSE IF b.minX < a.minX THEN b
    ELSE a

pickBetter(a, b) ==
    IF IsNull(a) THEN b
    ELSE IF IsNull(b) THEN a
    ELSE IF b.maxY > a.maxY THEN b
    ELSE IF b.maxY < a.maxY THEN a
    ELSE IF b.minX < a.minX THEN b
    ELSE IF b.minX > a.minX THEN a
    ELSE IF StrLess(b.signature, a.signature) THEN b ELSE a

----------------------------------------------------------------------------
(* smiles.ts: parseSmilesGraph *)

\* Set.prototype.add on an insertion-ordered set
SetAdd(s, v) == IF \E i \in 1..Len(s) : s[i] = v THEN s ELSE Append(s, v)

\* lines 41-46 without line 45
addEdgeOneWay(adj, a, b) == [adj EXCEPT ![a] = SetAdd(@, b)]

addEdge(adj, a, b) ==
    LET adj1 == [adj EXCEPT ![a] = SetAdd(@, b)]
    IN  [adj1 EXCEPT ![b] = SetAdd(@, a)]

ParseInit == [nodes |-> <<>>, adj |-> <<>>, branchStack |-> <<>>, lastIndex |-> 0]

\* line 49, with every character but the parentheses taken for an atom
IsAtomOrOther(ch) == ch # "(" /\ ch # ")"

\* line 49
IsAtom(ch) == ch = "C" \/ ch = "O"

\* line 60 without the pop
CloseBranchNoPop(st) == st

\* line 60
CloseBranch(st) ==
    IF Len(st.branchStack) > 0
    THEN [st EXCEPT !.lastIndex = st.branchStack[Len(st.branchStack)],
                    !.branchStack = SubSeq(@, 1, Len(@) - 1)]
    ELSE st

ParseStep(st, ch) ==
    IF IsAtom(ch) THEN
        LET idx  == Len(st.nodes) + 1
            adj0 == Append(st.adj, <<>>)
        IN  [nodes |-> Append(st.nodes, [element |-> ch]),
             adj |-> IF st.lastIndex # 0 THEN addEdge(adj0, st.lastIndex, idx) ELSE adj0,
             branchStack |-> st.branchStack,
             lastIndex |-> idx]
    ELSE IF ch = "(" THEN
        IF st.lastIndex # 0
        THEN [st EXCEPT !.branchStack = Append(@, st.lastIndex)]
        ELSE st
    ELSE IF ch = ")" THEN CloseBranch(st)
    ELSE st

RECURSIVE ParseFrom(_, _, _)
ParseFrom(pattern, i, st) ==
    IF i > Len(pattern) THEN st
    ELSE ParseFrom(pattern, i + 1, ParseStep(st, pattern[i]))

parseSmilesGraph(pattern) ==
    LET st == ParseFrom(pattern, 1, ParseInit)
    IN  [nodes |-> st.nodes, adjacency |-> st.adj]

----------------------------------------------------------------------------
(* smiles.ts: findBestMatchForGraph *)

\* the context of one call: ctx = [graph, board, width, height]
Ctx(graph, board, w, h) == [graph |-> graph, board |-> board, width |-> w, height |-> h]

RECURSIVE RootFrom(_, _, _)
RootFrom(adjacency, i, rootIndex) ==
    IF i > Len(adjacency) THEN rootIndex
    ELSE RootFrom(adjacency, i + 1,
                  IF Len(adjacency[i]) > Len(adjacency[rootIndex]) THEN i ELSE rootIndex)

InBounds(ctx, x, y) == ~(x < 0 \/ x >= ctx.width \/ y < 0 \/ y >= ctx.height)

ElementMatchesAnyAtom(ctx, nodeIndex, x, y) == ctx.board[y][x] \in Atom

\* line 102 (and 173 for the root): cell === graph.nodes[nodeIndex]?.element
ElementMatches(ctx, nodeIndex, x, y) ==
    ctx.board[y][x] = ctx.graph.nodes[nodeIndex].element

SeqContains(s, c) == \E i \in 1..Len(s) : s[i] = c

\* arr.filter((cand, idx) => arr.findIndex(same coord) === idx)
RECURSIVE Dedupe(_)
Dedupe(s) ==
    IF s = <<>> THEN <<>>
    ELSE LET front == SubSeq(s, 1, Len(s) - 1)
             d     == Dedupe(front)
         IN  IF SeqContains(front, s[Len(s)]) THEN d ELSE Append(d, s[Len(s)])

\* lines 96-104: the board neighbours of neighborPos holding the node's element
LocalCandidates(ctx, nodeIndex, neighborPos) ==
    LET moved == [i \in 1..4 |-> Coord(neighborPos.x + directions[i].x,
                                       neighborPos.y + directions[i].y)]
        Keep(c) == InBounds(ctx, c.x, c.y) /\ ElementMatches(ctx, nodeIndex, c.x, c.y)
    IN  SelectSeq(moved, Keep)

\* lines 93-114: the loop over neighborIndices from position i, candidates being
\* `cands` (isNull: still null)
RECURSIVE CandidatesLoop(_, _, _, _, _, _, _)
CandidatesLoop(ctx, assignments, nodeIndex, neighborIndices, i, cands, isNull) ==
    IF i > Len(neighborIndices) THEN Dedupe(IF isNull THEN <<>> ELSE cands)
    ELSE IF neighborIndices[i] \notin DOMAIN assignments
    THEN CandidatesLoop(ctx, assignments, nodeIndex, neighborIndices, i + 1, cands, isNull)
    ELSE LET local == LocalCandidates(ctx, nodeIndex, assignments[neighborIndices[i]])
             InLocal(c) == SeqContains(local, c)
             filtered == SelectSeq(cands, InLocal)
         IN  IF local = <<>> THEN <<>>
             ELSE IF isNull
             THEN CandidatesLoop(ctx, assignments, nodeIndex, neighborIndices, i + 1, local, FALSE)
             ELSE IF filtered = <<>> THEN <<>>
             ELSE CandidatesLoop(ctx, assignments, nodeIndex, neighborIndices, i + 1, filtered, FALSE)

getCandidatesForNode(ctx, assignments, nodeIndex, neighborIndices) ==
    CandidatesLoop(ctx, assignments, nodeIndex, neighborIndices, 1, <<>>, TRUE)

\* adjacency[node]?.filter((n) => assignments.has(n))
AssignedNeighbors(ctx, assignments, node) ==
    LET Has(n) == n \in DOMAIN assignments
    IN  SelectSeq(ctx.graph.adjacency[node], Has)

\* lines 132-141: the scan of Array.from(unassigned) from position i
RECURSIVE NextNodeFrom(_, _, _, _, _, _)
NextNodeFrom(ctx, assignments, unassigned, i, nextNode, bestNeighborCount) ==
    IF i > Len(unassigned) THEN nextNode
    ELSE LET n == Len(AssignedNeighbors(ctx, assignments, unassigned[i]))
         IN  IF n = 0
             THEN NextNodeFrom(ctx, assignments, unassigned, i + 1, nextNode, bestNeighborCount)
             ELSE IF n > bestNeighborCount
             THEN NextNodeFrom(ctx, assignments, unassigned, i + 1, unassigned[i], n)
             ELSE NextNodeFrom(ctx, assignments, unassigned, i + 1, nextNode, bestNeighborCount)

\* the `used` set holds exactly the coordinates of `assignments` (lines 161-167,
\* 175-181 add and delete the two together)
UsedOf(assignments) == {assignments[n] : n \in DOMAIN assignments}

\* line 147: used.has(key)
IsUsed(assignments, cand) == cand \in UsedOf(assignments)

\* lines 148-159
ValidFor(assignments, assignedNeighbors, cand) ==
    \A i \in 1..Len(assignedNeighbors) :
        /\ assignedNeighbors[i] \in DOMAIN assignments
        /\ Manhattan(assignments[assignedNeighbors[i]], cand) = 1

\* unassigned.delete(n) on the insertion-ordered set
SetDelete(s, v) == LET Other(w) == w # v IN SelectSeq(s, Other)

\* lines 122-129: a complete assignment
Complete(ctx, assignments, st) ==
    LET coords    == [i \in 1..Len(ctx.graph.nodes) |-> assignments[i]]
        candidate == createCandidate(coords)
    IN  IF candidate.signature \notin st.seen
        THEN [st EXCEPT !.seen = @ \cup {candidate.signature},
                        !.best = pickBetter(@, candidate)]
        ELSE st

\* search() and its loop over candidates.  st = [best, seen, unassigned] is the
\* part of the closure's state that a call leaves changed; assignments and used
\* are restored by every call (lines 165-167).
RECURSIVE search(_, _, _)
RECURSIVE SearchLoop(_, _, _, _, _, _, _)
search(ctx, assignments, st) ==
    IF Cardinality(DOMAIN assignments) = Len(ctx.graph.nodes)
    THEN Complete(ctx, assignments, st)
    ELSE LET nextNode == NextNodeFrom(ctx, assignments, st.unassigned, 1, 0, -1)
         IN  IF nextNode = 0 THEN st
             ELSE LET assignedNeighbors == AssignedNeighbors(ctx, assignments, nextNode)
                      candidates == getCandidatesForNode(ctx, assignments, nextNode,
                                                         assignedNeighbors)
                  IN  SearchLoop(ctx, assignments, st, nextNode, assignedNeighbors,
                                 candidates, 1)

SearchLoop(ctx, assignments, st, nextNode, assignedNeighbors, candidates, i) ==
    IF i > Len(candidates) THEN st
    ELSE LET cand == candidates[i]
         IN  IF IsUsed(assignments, cand) \/ ~ValidFor(assignments, assignedNeighbors, cand)
             THEN SearchLoop(ctx, assignments, st, nextNode, assignedNeighbors,
                             candidates, i + 1)
             ELSE LET st1 == [st EXCEPT !.unassigned = SetDelete(@, nextNode)]
                      st2 == search(ctx, assignments @@ (nextNode :> cand), st1)
                      st3 == [st2 EXCEPT !.unassigned = SetAdd(@, nextNode)]
                  IN  SearchLoop(ctx, assignments, st3, nextNode, assignedNeighbors,
                                 candidates, i + 1)

\* lines 171-183: the root loop, cell k = y * width + x
RECURSIVE RootLoop(_, _, _, _)
RootLoop(ctx, rootIndex, st, k) ==
    IF k >= ctx.width * ctx.height THEN st
    ELSE LET x == k % ctx.width
             y == k \div ctx.width
         IN  IF ~ElementMatches(ctx, rootIndex, x, y)
             THEN RootLoop(ctx, rootIndex, st, k + 1)
             ELSE LET st1 == [st EXCEPT !.unassigned = SetDelete(@, rootIndex)]
                      st2 == search(ctx, (rootIndex :> Coord(x, y)), st1)
                      st3 == [st2 EXCEPT !.unassigned = SetAdd(@, rootIndex)]
                  IN  RootLoop(ctx, rootIndex, st3, k + 1)

findBestMatchForGraph(graph, board, width, height) ==
    IF Len(graph.nodes) = 0 THEN NullMatch
    ELSE LET ctx == Ctx(graph, board, width, height)
             total == Len(graph.nodes)
             rootIndex == RootFrom(graph.adjacency, 1, 1)
             st0 == [best |-> NullMatch, seen |-> {},
                     unassigned |-> [i \in 1..total |-> i]]
         IN  RootLoop(ctx, rootIndex, st0, 0).best

----------------------------------------------------------------------------
(* molecules.ts: chooseRandom, selectTarget.  Math.random() is an input: a  *)
(* roll in hundredths (floor(100 * Math.random())) for the tier choice, and  *)
(* draws, the successive values v of Math.random() in chooseRandom, each     *)
(* standing for v / RandomGrain.                                             *)

Mol(name, pattern) == [name |-> name, pattern |-> pattern]

NullMol == Mol("null", <<>>)

\* prevName === undefined
NoName == "undefined"

TIER_ONE_MOLS ==
    << Mol("ethane", << "C", "C" >>),
       Mol("propane", << "C", "C", "C" >>),
       Mol("butane", << "C", "C", "C", "C" >>),
       Mol("pentane", << "C", "C", "C", "C", "C" >>),
       Mol("hexane", << "C", "C", "C", "C", "C", "C" >>),
       Mol("ethanol", << "C", "C", "O" >>),
       Mol("dimethyl ether", << "C", "O", "C" >>),
       Mol("diethyl ether", << "C", "C", "O", "C", "C" >>) >>

TIER_TWO_MOLS ==
    << Mol("2-methylpropane", << "C", "C", "(", "C", ")", "C" >>),
       Mol("2-methylbutane", << "C", "C", "(", "C", ")", "C", "C" >>),
       Mol("propan-1-ol", << "C", "C", "C", "O" >>),
       Mol("2-propanol", << "C", "C", "(", "O", ")", "C" >>),
       Mol("butan-2-ol", << "C", "C", "(", "O", ")", "C", "C" >>),
       Mol("2-methylpropan-1-ol", << "C", "C", "(", "C", ")", "C", "O" >>),
       Mol("methoxyethane", << "C", "O", "C", "C" >>),
       Mol("methoxyethanol", << "C", "O", "C", "C", "O" >>),
       Mol("propoxyethane", << "C", "C", "C", "O", "C", "C" >>) >>

TIER_THREE_MOLS ==
    << Mol("3-methylpentane", << "C", "C", "C", "(", "C", ")", "C", "C" >>),
       Mol("2-methylpentane", << "C", "C", "(", "C", ")", "C", "C", "C" >>),
       Mol("2,2-dimethylbutane", << "C", "C", "(", "C", ")", "(", "C", ")", "C", "C" >>),
       Mol("2,3-dimethylbutane", << "C", "C", "(", "C", ")", "C", "(", "C", ")", "C" >>),
       Mol("3-ethylpentane", << "C", "C", "C", "(", "C", "C", ")", "C", "C" >>),
       Mol("2-methoxy-2-methylpropane", << "C", "O", "C", "(", "C", ")", "(", "C", ")", "C" >>),
       Mol("1-methoxy-2-methylpropane", << "C", "O", "C", "C", "(", "C", ")", "C" >>),
       Mol("2-ethoxy-2-methylpropane", << "C", "C", "O", "C", "(", "C", ")", "(", "C", ")", "C" >>),
       Mol("2-methoxypropan-1-ol", << "C", "O", "C", "(", "C", ")", "O" >>),
       Mol("2-(methoxymethyl)propan-1-ol", << "C", "O", "C", "(", "C", ")", "C", "O" >>),
       Mol("2-methoxy-2-methylpropan-1-ol", << "C", "O", "C", "(", "C", ")", "(", "C", ")", "C", "O" >>),
       Mol("2-ethoxyethan-1-ol", << "C", "C", "O", "C", "C", "O" >>),
       Mol("3-methoxy-2-methylbutan-1-ol", << "C", "O", "C", "(", "C", ")", "C", "C", "O" >>),
       Mol("2-methoxy-3-methylbutane", << "C", "O", "C", "(", "C", ")", "C", "C" >>),
       Mol("2-(ethoxymethyl)propan-1-ol", << "C", "C", "O", "C", "(", "C", ")", "C", "O" >>),
       Mol("2-ethoxy-3-methylbutane", << "C", "C", "O", "C", "(", "C", ")", "C", "C" >>),
       Mol("2-ethoxy-2-methylpropan-1-ol", << "C", "C", "O", "C", "(", "C", ")", "(", "C", ")", "C", "O" >>) >>

FALLBACK_MOLECULE == Mol("ethane", << "C", "C" >>)

RandomGrain == 17

\* Math.floor(Math.random() * pool.length), as a 1-based index
PoolIndex(v, length) == (v * length) \div RandomGrain + 1

\* a draw beyond the ones supplied repeats the last one
DrawAt(draws, i) == IF i <= Len(draws) THEN draws[i] ELSE draws[Len(draws)]

\* the i-th draw taken from the tier-3 pool whatever pool was asked for
DrawnFromTierThree(pool, draws, i) ==
    TIER_THREE_MOLS[PoolIndex(DrawAt(draws, i), Len(TIER_THREE_MOLS))]

\* pool[Math.floor(Math.random() * pool.length)] for the i-th draw
Drawn(pool, draws, i) == pool[PoolIndex(DrawAt(draws, i), Len(pool))]

\* lines 54-58: the retry loop, `attempts` retries done
RECURSIVE RetryLoop(_, _, _, _, _)
RetryLoop(pool, prevName, draws, candidate, attempts) ==
    IF candidate.name = prevName /\ attempts < Len(pool)
    THEN RetryLoop(pool, prevName, draws, Drawn(pool, draws, attempts + 2), attempts + 1)
    ELSE candidate

chooseRandom(pool, prevName, draws) ==
    IF Len(pool) = 0 THEN NullMol
    ELSE IF Len(pool) = 1 THEN pool[1]
    ELSE RetryLoop(pool, prevName, draws, Drawn(pool, draws, 1), 0)

\* a ?? b
Coalesce(a, b) == IF a = NullMol THEN b ELSE a

\* Math.min that returns its first argument
MinOfFirst(a, b) == a

MinOf(a, b) == IF a < b THEN a ELSE b

MaxOf(a, b) == IF a > b THEN a ELSE b

\* rnd = [roll, draws].  customMolecules null or empty is <<>>.  Only the first
\* chooseRandom that meets a non-empty pool consumes draws.
selectTarget(clearCount, prevName, customMolecules, rnd) ==
    IF Len(customMolecules) > 0 THEN
        Coalesce(chooseRandom(customMolecules, prevName, rnd.draws), customMolecules[1])
    ELSE IF clearCount < 2 THEN
        Coalesce(chooseRandom(TIER_ONE_MOLS, prevName, rnd.draws),
        Coalesce(chooseRandom(TIER_TWO_MOLS, prevName, rnd.draws),
        Coalesce(chooseRandom(TIER_THREE_MOLS, prevName, rnd.draws), FALLBACK_MOLECULE)))
    ELSE IF clearCount < 6 THEN
        LET tierTwoChance == MinOf(85, 35 + (clearCount - 2) * 15)
            useTierTwo == rnd.roll < tierTwoChance
            c1 == chooseRandom(IF useTierTwo THEN TIER_TWO_MOLS ELSE TIER_ONE_MOLS,
                               prevName, rnd.draws)
            c2 == Coalesce(c1, chooseRandom(IF useTierTwo THEN TIER_ONE_MOLS
                                            ELSE TIER_TWO_MOLS, prevName, rnd.draws))
            c3 == Coalesce(c2, chooseRandom(TIER_THREE_MOLS, prevName, rnd.draws))
        IN  Coalesce(c3, FALLBACK_MOLECULE)
    ELSE
        LET tierThreeChance == MinOf(90, 40 + (clearCount - 6) * 10)
            tierTwoChance == MinOf(70, 30 + (clearCount - 6) * 8)
            primaryPool == IF rnd.roll < tierThreeChance THEN TIER_THREE_MOLS
                           ELSE IF rnd.roll < tierThreeChance + tierTwoChance
                           THEN TIER_TWO_MOLS
                           ELSE TIER_ONE_MOLS
            c1 == chooseRandom(primaryPool, prevName, rnd.draws)
            c2 == Coalesce(c1,
                  Coalesce(chooseRandom(TIER_THREE_MOLS, prevName, rnd.draws),
                  Coalesce(chooseRandom(TIER_TWO_MOLS, prevName, rnd.draws),
                           chooseRandom(TIER_ONE_MOLS, prevName, rnd.draws))))
        IN  Coalesce(c2, FALLBACK_MOLECULE)

----------------------------------------------------------------------------
(* Durations in milliseconds are exact rationals [num, den] in lowest terms *)
(* (the source computes on IEEE doubles).                                   *)

RECURSIVE GCD(_, _)
GCD(a, b) == IF b = 0 THEN a ELSE GCD(b, a % b)

Rat(n, d) == LET g == GCD(Abs(n), d) IN [num |-> n \div g, den |-> d \div g]

RatLess(a, b) == a.num * b.den < b.num * a.den

RatMax(a, b) == IF RatLess(a, b) THEN b ELSE a

RatMul(a, b) == Rat(a.num * b.num, a.den * b.den)

RECURSIVE RatPow(_, _)
RatPow(a, n) == IF n = 0 THEN Rat(1, 1) ELSE RatMul(a, RatPow(a, n - 1))

----------------------------------------------------------------------------
(* part_001: class GameEngine.  An operation takes the engine record and    *)
(* returns the engine record after it, with its return value where it has   *)
(* one.                                                                     *)

NullActive == [x |-> -1, y |-> -1, atom |-> Empty]

MIN_TICK_MS == 80

MAX_GARBAGE_ROWS == 6

emptyBoard(e) == EmptyBoardOf(e.width, e.height)

NewGameEngine(width, height, tickMs, customMolecules, rnd) ==
    [width |-> width, height |-> height, tickMs |-> Rat(tickMs, 1),
     currentTickMs |-> Rat(tickMs, 1), customMolecules |-> customMolecules,
     board |-> EmptyBoardOf(width, height), active |-> NullActive, score |-> 0,
     target |-> selectTarget(0, NoName, customMolecules, rnd),
     running |-> FALSE, softDrop |-> FALSE, pendingGarbage |-> 0]

\* lines 47-54, `target` being what selectTarget returned
\* lines 46-55 without line 53
ResetKeepingSpeed(e, target) ==
    [e EXCEPT !.board = emptyBoard(e), !.active = NullActive, !.score = 0,
              !.target = target, !.running = FALSE, !.softDrop = FALSE,
              !.pendingGarbage = 0]

ResetTo(e, target) ==
    [e EXCEPT !.board = emptyBoard(e), !.active = NullActive, !.score = 0,
              !.target = target, !.running = FALSE, !.softDrop = FALSE,
              !.currentTickMs = e.tickMs, !.pendingGarbage = 0]

reset(e, rnd) ==
    ResetTo(e, selectTarget(0, NoName, e.customMolecules, rnd))

\* r = floor(100 * Math.random())
randAtom(e, r) ==
    LET oxygenProb == IF e.score >= 4 THEN 25 ELSE 15
    IN  IF r < oxygenProb THEN Oxygen ELSE Carbon

canMove(e, dx, dy) ==
    IF e.active = NullActive THEN FALSE
    ELSE LET nx == e.active.x + dx
             ny == e.active.y + dy
         IN  IF nx < 0 \/ nx >= e.width \/ ny < 0 \/ ny >= e.height THEN FALSE
             ELSE IF e.board[ny][nx] # Empty THEN FALSE
             ELSE TRUE

\* lines 73-77 with the column read bottom to top
ColumnStackBottomUp(board, h, x) ==
    LET col == [i \in 1..h |-> board[h - i][x]]
        NonEmpty(v) == v # Empty
    IN  SelectSeq(col, NonEmpty)

\* lines 73-77: the non-empty cells of column x, top to bottom
ColumnStack(board, h, x) ==
    LET col == [i \in 1..h |-> board[i - 1][x]]
        NonEmpty(v) == v # Empty
    IN  SelectSeq(col, NonEmpty)

\* applyGravity on a board (lines 71-84)
applyGravity(board, w, h) ==
    [y \in 0..(h - 1) |-> [x \in 0..(w - 1) |->
        LET stack == ColumnStack(board, h, x)
            top == h - Len(stack)
        IN  IF y >= top THEN stack[y - top + 1] ELSE Empty]]

\* returns [e, ok]
spawn(e, r) ==
    LET x == e.width \div 2
        y == 0
    IN  IF e.board[y][x] # Empty
        THEN [e |-> e, ok |-> FALSE]
        ELSE [e |-> [e EXCEPT !.active = [x |-> x, y |-> y, atom |-> randAtom(e, r)]],
              ok |-> TRUE]

findBestTargetMatch(e) ==
    findBestMatchForGraph(parseSmilesGraph(e.target.pattern), e.board, e.width, e.height)

\* returns [e, match]
lockPiece(e) ==
    IF e.active = NullActive THEN [e |-> e, match |-> NullMatch]
    ELSE LET e1 == [e EXCEPT !.board[e.active.y][e.active.x] = e.active.atom,
                             !.active = NullActive]
         IN  [e |-> e1, match |-> findBestTargetMatch(e1)]

\* line 107 run at most once
DropOneRow(e) ==
    IF canMove(e, 0, 1) THEN [e EXCEPT !.active.y = @ + 1] ELSE e

\* while (this.canMove(0, 1)) this.active.y++
RECURSIVE DropDown(_)
DropDown(e) ==
    IF canMove(e, 0, 1) THEN DropDown([e EXCEPT !.active.y = @ + 1]) ELSE e

\* returns [e, match]
hardDrop(e) ==
    IF e.active = NullActive THEN [e |-> e, match |-> NullMatch]
    ELSE lockPiece(DropDown(e))

\* lines 111-118 without the running test of line 112
moveHorizontalAnyTime(e, dx) ==
    IF e.active = NullActive THEN [e |-> e, ok |-> FALSE]
    ELSE IF canMove(e, dx, 0)
    THEN [e |-> [e EXCEPT !.active.x = @ + dx], ok |-> TRUE]
    ELSE [e |-> e, ok |-> FALSE]

\* returns [e, ok]
moveHorizontal(e, dx) ==
    IF e.active = NullActive \/ ~e.running THEN [e |-> e, ok |-> FALSE]
    ELSE IF canMove(e, dx, 0)
    THEN [e |-> [e EXCEPT !.active.x = @ + dx], ok |-> TRUE]
    ELSE [e |-> e, ok |-> FALSE]

\* returns [e, ok]
boostSpeed(e, clearedCount) ==
    IF clearedCount <= 0 THEN [e |-> e, ok |-> FALSE]
    ELSE LET factor == RatPow(Rat(9, 10), clearedCount)
             nextDuration == RatMax(Rat(MIN_TICK_MS, 1), RatMul(e.currentTickMs, factor))
         IN  IF nextDuration = e.currentTickMs THEN [e |-> e, ok |-> FALSE]
             ELSE [e |-> [e EXCEPT !.currentTickMs = nextDuration], ok |-> TRUE]

\* lines 129-132, `match` being what findBestTargetMatch returned
\* lines 128-132 without lines 130-131
PickedUnscored(e1, match) == [e |-> e1, match |-> match]

Picked(e1, match) ==
    IF IsNull(match) THEN [e |-> e1, match |-> NullMatch]
    ELSE [e |-> boostSpeed([e1 EXCEPT !.score = @ + 1], 1).e, match |-> match]

\* lines 127-132, `next` being what selectTarget returned.  returns [e, match].
\* (v \in { x } names the value of x, as a const declaration does.)
PickTarget(e, next) ==
    CHOOSE res \in { Picked([e EXCEPT !.target = next], match) :
                       match \in { findBestTargetMatch([e EXCEPT !.target = next]) } } : TRUE

\* returns [e, match]
pickNewTarget(e, rnd) ==
    PickTarget(e, selectTarget(e.score, e.target.name, e.customMolecules, rnd))

\* lines 136-140, coordinate i onwards; board[coord.y] is undefined for a row
\* outside the board
RECURSIVE ClearCoords(_, _, _, _)
ClearCoords(board, h, coords, i) ==
    IF i > Len(coords) THEN board
    ELSE LET c == coords[i]
         IN  ClearCoords(IF c.y >= 0 /\ c.y < h
                         THEN [board EXCEPT ![c.y][c.x] = Empty] ELSE board,
                         h, coords, i + 1)

clearMatchNoGravity(e, match) ==
    [e EXCEPT !.board = ClearCoords(e.board, e.height, match.coords, 1)]

clearMatch(e, match) ==
    [e EXCEPT !.board = applyGravity(ClearCoords(e.board, e.height, match.coords, 1),
                                     e.width, e.height)]

ToppedOutFirstRow(e, capped) ==
    \E x \in 0..(e.width - 1) : e.board[0][x] # Empty

\* lines 156-160: a non-empty cell among rows 0..capped-1 (rows beyond the board
\* are undefined and skipped)
ToppedOut(e, capped) ==
    \E y \in 0..(capped - 1) :
        y < e.height /\ \E x \in 0..(e.width - 1) : e.board[y][x] # Empty

\* lines 173-176 without the clamp to row 0
ShiftActiveUnclamped(active, capped) ==
    IF active = NullActive THEN NullActive
    ELSE [active EXCEPT !.y = @ - capped]

\* lines 173-176
ShiftActive(active, capped) ==
    IF active = NullActive THEN NullActive
    ELSE [active EXCEPT !.y = MaxOf(0, @ - capped)]

\* count >= 1.  gaps[y] is the gap column drawn for row y.  returns [e, ok]
addGarbageRows(e, count, gaps) ==
    LET capped == MinOf(count, MAX_GARBAGE_ROWS)
    IN  IF ToppedOut(e, capped) THEN [e |-> e, ok |-> FALSE]
        ELSE LET board1 ==
                   [y \in 0..(e.height - 1) |->
                      IF y >= e.height - capped
                      THEN [x \in 0..(e.width - 1) |->
                              IF x = gaps[y] THEN Empty ELSE Garbage]
                      ELSE e.board[y + capped]]
                 active1 == ShiftActive(e.active, capped)
             IN  [e |-> [e EXCEPT !.board = board1, !.active = active1], ok |-> TRUE]

NoTick(e) == [e |-> e, match |-> NullMatch, gameOver |-> FALSE]

\* lines 188-197 without line 194
LockedStillRunning(locked, r) ==
    IF ~IsNull(locked.match)
    THEN [e |-> boostSpeed([locked.e EXCEPT !.score = @ + 1], 1).e,
          match |-> locked.match, gameOver |-> FALSE]
    ELSE LET sp == spawn(locked.e, r)
         IN  IF ~sp.ok
             THEN [e |-> sp.e, match |-> NullMatch, gameOver |-> TRUE]
             ELSE NoTick(sp.e)

\* lines 188-197, `locked` being the engine after lockPiece and the match it
\* returned
Locked(locked, r) ==
    IF ~IsNull(locked.match)
    THEN [e |-> boostSpeed([locked.e EXCEPT !.score = @ + 1], 1).e,
          match |-> locked.match, gameOver |-> FALSE]
    ELSE LET sp == spawn(locked.e, r)
         IN  IF ~sp.ok
             THEN [e |-> [sp.e EXCEPT !.running = FALSE],
                   match |-> NullMatch, gameOver |-> TRUE]
             ELSE NoTick(sp.e)

\* lines 183-199: step i of `steps`; r is the random number of spawn
RECURSIVE TickSteps(_, _, _, _)
TickSteps(e, i, steps, r) ==
    IF i >= steps THEN NoTick(e)
    ELSE IF e.active # NullActive /\ canMove(e, 0, 1)
    THEN TickSteps([e EXCEPT !.active.y = @ + 1], i + 1, steps, r)
    ELSE IF e.active # NullActive
    THEN CHOOSE res \in { Locked(locked, r) : locked \in { lockPiece(e) } } : TRUE
    ELSE TickSteps(e, i + 1, steps, r)

\* lines 180-201 with the piece locked where it is, lines 184-185 left out
tickLockingInAir(e, r) ==
    IF ~e.running \/ e.active = NullActive THEN NoTick(e)
    ELSE CHOOSE res \in { Locked(locked, r) : locked \in { lockPiece(e) } } : TRUE

\* lines 180-201 taking no step
tickIdle(e, r) == NoTick(e)

\* lines 180-201 with two steps whatever softDrop is
tickTwoSteps(e, r) ==
    IF ~e.running THEN NoTick(e)
    ELSE TickSteps(e, 0, 2, r)

\* returns [e, match, gameOver]
tick(e, r) ==
    IF ~e.running THEN NoTick(e)
    ELSE TickSteps(e, 0, IF e.softDrop THEN 2 ELSE 1, r)

----------------------------------------------------------------------------
(* useSharedSync.tsx: useGameEngine.  A handler takes the record s of the    *)
(* engine, the hook's refs and state, and returns the record after it.  A    *)
(* closure is the record of what it captured: the interval callback captures *)
(* the showHelp of the render whose startTickLoop installed it, an           *)
(* afterClear callback its kind and the showHelp of its render.  s.evt       *)
(* records what the handler did.                                            *)

Interval(sh, period) == [on |-> TRUE, showHelp |-> sh, period |-> period]

\* tickId.current === null
NoInterval == [on |-> FALSE, showHelp |-> FALSE, period |-> Rat(0, 1)]

AfterClear(kind, sh) == [kind |-> kind, showHelp |-> sh]

\* the pending timeout of scheduleMatchClear; board is the board the match was
\* found on
Timeout(match, afterClear, board) ==
    [on |-> TRUE, match |-> match, afterClear |-> afterClear, board |-> board]

\* highlightTimeoutRef.current === null
NoTimeout ==
    [on |-> FALSE, match |-> NullMatch, afterClear |-> AfterClear("none", FALSE),
     board |-> <<>>]

Overlay(msg, score) == [msg |-> msg, score |-> score]

NoOverlay == Overlay("null", 0)

\* what a handler did: the number of addGarbageRows calls, whether one was made
\* with the highlight timeout pending, whether a piece locked and a match was
\* returned, whether clearMatch ran, whether a spawn failed, the number of
\* onDeath calls, whether start or prepareForStart ran, and whether the
\* interval and the timeout the refs hold were created by this handler
NoEvt ==
    [garbageCalls |-> 0, midClear |-> FALSE, locked |-> FALSE, matched |-> FALSE,
     cleared |-> FALSE, spawnFailed |-> FALSE, deaths |-> 0, reset |-> FALSE,
     madeInterval |-> FALSE, madeTimeout |-> FALSE]

\* no timer of the page is live
NoTimers == [intervals |-> 0, timeouts |-> 0]

\* lines 133-138, without window.clearTimeout
dropHighlightTimeout(s) == [s EXCEPT !.highlightTimeoutRef = NoTimeout]

\* lines 133-138
clearHighlightTimeout(s) ==
    IF s.highlightTimeoutRef.on
    THEN [s EXCEPT !.highlightTimeoutRef = NoTimeout, !.timers.timeouts = @ - 1,
                   !.evt.madeTimeout = FALSE]
    ELSE s

\* lines 157-162
stopTickLoop(s) ==
    IF s.tickId.on
    THEN [s EXCEPT !.tickId = NoInterval, !.timers.intervals = @ - 1,
                   !.evt.madeInterval = FALSE]
    ELSE s

\* lines 173-187: window.setTimeout(...) assigned to highlightTimeoutRef
SetHighlightTimeout(s, timeout) ==
    [s EXCEPT !.highlightTimeoutRef = timeout, !.timers.timeouts = @ + 1,
              !.evt.madeTimeout = TRUE]

scheduleMatchClear(s, match, afterClear) ==
    SetHighlightTimeout(
        clearHighlightTimeout([s EXCEPT !.engine.running = FALSE,
                                        !.engine.softDrop = FALSE]),
        Timeout(match, afterClear, s.engine.board))

gameOver(s, msg) ==
    [clearHighlightTimeout(stopTickLoop(
         [s EXCEPT !.engine.running = FALSE, !.isDead = TRUE]))
       EXCEPT !.overlay = Overlay(msg, s.engine.score),
              !.evt.deaths = @ + 1]

\* lines 210-249: window.setInterval(...) assigned to tickId
SetTickInterval(s, sh) ==
    [s EXCEPT !.tickId = Interval(sh, s.engine.currentTickMs),
              !.timers.intervals = @ + 1, !.evt.madeInterval = TRUE]

startTickLoop(s, sh) == SetTickInterval(stopTickLoop(s), sh)

\* engine.spawn() in a handler
SpawnIn(s, r) ==
    LET sp == spawn(s.engine, r)
    IN  [s EXCEPT !.engine = sp.e, !.evt.spawnFailed = ~sp.ok]

\* the afterClear callbacks: lines 230-241 (tick), 266-271 (start), 375-384
\* (space)
RunAfterClear(s, after, r) ==
    IF after.kind = "tick" THEN
        SpawnIn([s EXCEPT !.engine.running = ~after.showHelp], r)
    ELSE IF after.kind = "start" THEN
        startTickLoop(SpawnIn([s EXCEPT !.engine.running = TRUE], r), after.showHelp)
    ELSE
        LET s1 == SpawnIn([s EXCEPT !.engine.running = TRUE], r)
        IN  IF s1.evt.spawnFailed THEN gameOver(s1, "Game Over!")
            ELSE startTickLoop(s1, after.showHelp)

\* lines 179-185, `pk` being the engine after pickNewTarget and the match it
\* returned
AutoMatched(s, pk, afterClear, r) ==
    IF ~IsNull(pk.match)
    THEN scheduleMatchClear([s EXCEPT !.engine = pk.e], pk.match, afterClear)
    ELSE RunAfterClear([s EXCEPT !.engine = pk.e], afterClear, r)

\* lines 173-186: the timeout callback of scheduleMatchClear
HighlightCallback(s, next, r) ==
    CHOOSE out \in
      { AutoMatched(s1, pk, s.highlightTimeoutRef.afterClear, r) :
          s1 \in { [s EXCEPT !.highlightTimeoutRef = NoTimeout,
                             !.timers.timeouts = @ - 1,
                             !.engine = clearMatch(s.engine, s.highlightTimeoutRef.match),
                             !.evt.cleared = TRUE] },
          pk \in { PickTarget(clearMatch(s.engine, s.highlightTimeoutRef.match), next) } }
      : TRUE

\* lines 215-220: addGarbageRows for events[i..]; stops at the first failure
RECURSIVE GarbageLoop(_, _, _, _)
GarbageLoop(s, events, gaps, i) ==
    IF i > Len(events) THEN s
    ELSE LET res == addGarbageRows(s.engine, events[i].rows, gaps[i])
             s1 == [s EXCEPT !.engine = res.e,
                             !.evt.garbageCalls = @ + 1,
                             !.evt.midClear = @ \/ s.highlightTimeoutRef.on]
         IN  IF ~res.ok THEN gameOver(s1, "Garbage overflow!")
             ELSE GarbageLoop(s1, events, gaps, i + 1)

\* lines 222-244, `result` being the engine after tick and what it returned
Ticked(s, result, afterClear) ==
    LET s1 == [s EXCEPT !.engine = result.e,
                        !.evt.locked = result.e.board # s.engine.board,
                        !.evt.matched = ~IsNull(result.match)]
    IN  IF result.gameOver THEN gameOver(s1, "Game Over!")
        ELSE IF ~IsNull(result.match)
        THEN scheduleMatchClear(s1, result.match, afterClear)
        ELSE s1

\* lines 222-244 after the garbage loop left s1
TickIn(s1, r, afterClear) ==
    IF s1.evt.deaths > 0 THEN s1
    ELSE CHOOSE out \in { Ticked(s1, result, afterClear) :
                            result \in { tick(s1.engine, r) } } : TRUE

\* lines 210-249: the interval callback
TickCallback(s, gaps, r) ==
    IF ~s.engine.running THEN s
    ELSE CHOOSE out \in
           { TickIn(s1, r, AfterClear("tick", s.tickId.showHelp)) :
               s1 \in { GarbageLoop([s EXCEPT !.inbox = <<>>], s.inbox, gaps, 1) } } : TRUE

\* lines 263-275, `pk` being the engine after pickNewTarget and the match it
\* returned
Started(s, pk, sh, r) ==
    IF ~IsNull(pk.match)
    THEN scheduleMatchClear([s EXCEPT !.engine = pk.e], pk.match, AfterClear("start", sh))
    ELSE startTickLoop(SpawnIn([s EXCEPT !.engine = pk.e], r), sh)

\* lines 252-279; t0 and next are what selectTarget returns to reset and to
\* pickNewTarget, sh the showHelp of the render this start belongs to
start(s, sh, t0, next, r) ==
    CHOOSE out \in
      { Started([clearHighlightTimeout(s) EXCEPT
                          !.overlay = NoOverlay, !.isDead = FALSE, !.hasStarted = TRUE,
                          !.evt.reset = TRUE], pk, sh, r) :
          pk \in { PickTarget([ResetTo(s.engine, t0) EXCEPT !.running = TRUE], next) } }
      : TRUE

\* lines 289-292, `pk` as above
Prepared(s, pk, r) ==
    IF IsNull(pk.match) THEN SpawnIn([s EXCEPT !.engine = pk.e], r)
    ELSE [s EXCEPT !.engine = pk.e]

\* lines 281-296
prepareForStart(s, t0, next, r) ==
    CHOOSE out \in
      { Prepared([stopTickLoop(clearHighlightTimeout(s)) EXCEPT
                           !.isDead = FALSE, !.hasStarted = FALSE,
                           !.overlay = Overlay("Click Start to begin dropping atoms.", 0),
                           !.evt.reset = TRUE],
                 pk, r) :
          pk \in { PickTarget(ResetTo(s.engine, t0), next) } }
      : TRUE

openHelp(s) ==
    [s EXCEPT !.preHelpRunningRef = s.engine.running \/ s.highlightTimeoutRef.on,
              !.engine.running = FALSE, !.engine.softDrop = FALSE,
              !.showHelp = TRUE]

closeHelp(s) ==
    [s EXCEPT !.showHelp = FALSE,
              !.engine.running = IF s.preHelpRunningRef THEN TRUE ELSE @,
              !.preHelpRunningRef = FALSE]

\* lines 370-392, `hd` being the engine after hardDrop and the match it
\* returned
Dropped(s, hd, r) ==
    LET s1 == [s EXCEPT !.engine = hd.e, !.evt.locked = TRUE,
                        !.evt.matched = ~IsNull(hd.match)]
    IN  IF ~IsNull(hd.match)
        THEN scheduleMatchClear(
                 [s1 EXCEPT !.engine = boostSpeed([hd.e EXCEPT !.score = @ + 1], 1).e],
                 hd.match, AfterClear("space", s.showHelp))
        ELSE LET s2 == SpawnIn(s1, r)
             IN  IF s2.evt.spawnFailed THEN gameOver(s2, "Game Over!") ELSE s2

\* lines 367-392: Space
SpaceKey(s, r) ==
    CHOOSE out \in { Dropped(s, hd, r) : hd \in { hardDrop(s.engine) } } : TRUE

\* lines 331-396; e.key 'H' and 'R' are "h" and "r" here, e.code 'Space' is
\* "Space", and "x" is any other key
\* lines 331-396 without the running test of lines 342-351
onKeyDownWhileStopped(s, key, t0, next, r) ==
    IF s.showHelp THEN
        IF key \in { "h", "Escape" } THEN closeHelp(s) ELSE s
    ELSE IF key = "h" THEN openHelp(s)
    ELSE IF key = "ArrowLeft" THEN [s EXCEPT !.engine = moveHorizontal(s.engine, -1).e]
    ELSE IF key = "ArrowRight" THEN [s EXCEPT !.engine = moveHorizontal(s.engine, 1).e]
    ELSE IF key = "ArrowDown" THEN [s EXCEPT !.engine.softDrop = TRUE]
    ELSE IF key = "Space" THEN SpaceKey(s, r)
    ELSE IF key = "r" THEN start(s, s.showHelp, t0, next, r)
    ELSE s

onKeyDown(s, key, t0, next, r) ==
    IF s.showHelp THEN
        IF key \in { "h", "Escape" } THEN closeHelp(s) ELSE s
    ELSE IF ~s.engine.running THEN
        IF key = "h" THEN openHelp(s)
        ELSE IF key = "r" THEN start(s, s.showHelp, t0, next, r)
        ELSE s
    ELSE IF s.engine.active = NullActive THEN s
    ELSE IF key = "h" THEN openHelp(s)
    ELSE IF key = "ArrowLeft" THEN [s EXCEPT !.engine = moveHorizontal(s.engine, -1).e]
    ELSE IF key = "ArrowRight" THEN [s EXCEPT !.engine = moveHorizontal(s.engine, 1).e]
    ELSE IF key = "ArrowDown" THEN [s EXCEPT !.engine.softDrop = TRUE]
    ELSE IF key = "Space" THEN SpaceKey(s, r)
    ELSE IF key = "r" THEN start(s, s.showHelp, t0, next, r)
    ELSE s

onKeyUp(s, key) ==
    IF key = "ArrowDown" THEN [s EXCEPT !.engine.softDrop = FALSE] ELSE s

----------------------------------------------------------------------------
(* src/src/hooks/useMultiplayerSync.ts: the garbage queue.  Every client    *)
(* runs the hook with its own localPlayerId.  useSyncState gives each       *)
(* client a copy of the shared value: a setter applies its updater to the   *)
(* caller's copy and sends the result to every other client, whose copy it  *)
(* replaces on arrival (in any order).  A callback sees the value of        *)
(* `garbageQueue` of the render that created it.  Timestamps are left out.  *)

Players == { "p1", "p2" }

HostId == "p1"

\* line 133: the sender's id and what Date.now() and Math.random() added
EventId(localPlayerId, nonce) == << localPlayerId, nonce >>

\* lines 132-138; `serial` numbers the calls of sendGarbage and is not read by
\* the hook
NewEvent(localPlayerId, toPlayerId, rows, nonce, serial) ==
    [id |-> EventId(localPlayerId, nonce), fromPlayerId |-> localPlayerId,
     toPlayerId |-> toPlayerId, rows |-> rows, serial |-> serial]

\* the new value goes to every other client
Broadcast(localPlayerId, value) ==
    { [to |-> q, value |-> value] : q \in Players \ { localPlayerId } }

\* the filter of lines 145-147 without the test of processedGarbageIds
IsMineEveryTime(localPlayerId, processed, e) == e.toPlayerId = localPlayerId

\* lines 145-147
IsMine(localPlayerId, processed, e) ==
    e.toPlayerId = localPlayerId /\ e.id \notin processed

IdsOf(events) == { events[i].id : i \in DOMAIN events }

\* lines 153-155
WithoutProcessed(queue, processed) ==
    SelectSeq(queue, LAMBDA e : e.id \notin processed)

\* lines 98-111, on the caller's lobby, queue copy and processed ids
startGame(l, localPlayerId) ==
    [lobby |-> IF l.hostId # localPlayerId THEN l ELSE [l EXCEPT !.phase = "countdown"],
     garbageQueue |-> <<>>,
     processedGarbageIds |-> {}]

\* lines 5-9 with the players joined (joinLobby makes the first the host)
JoinedLobby == [phase |-> "lobby", hostId |-> HostId]

NoSync == [op |-> "none", player |-> "", events |-> <<>>]

\* lines 15-18: every slot holds null
NoPlayerStates == [slot \in 0..3 |-> "null"]

\* lines 5-9; players lists the entries of the object in the order of its
\* keys, which is the order of insertion
EMPTY_LOBBY == [phase |-> "lobby", hostId |-> "", players |-> <<>>,
                winnerId |-> "undefined"]

IsMember(l, id) == \E k \in DOMAIN l.players : l.players[k].playerId = id

\* lines 27-30
getLocalSlot(l, localPlayerId) ==
    IF IsMember(l, localPlayerId)
    THEN (CHOOSE info \in { l.players[k] : k \in DOMAIN l.players } :
              info.playerId = localPlayerId).slot
    ELSE -1

\* line 36
usedSlots(l) == { l.players[k].slot : k \in DOMAIN l.players }

\* lines 37-43 taking the highest free slot
FirstFreeFromTop(used) ==
    IF \A i \in 0..3 : i \in used THEN -1
    ELSE CHOOSE i \in 0..3 : i \notin used /\ \A j \in (i + 1)..3 : j \in used

\* lines 37-43
FirstFree(used) ==
    IF \A i \in 0..3 : i \in used THEN -1
    ELSE CHOOSE i \in 0..3 : i \notin used /\ \A j \in 0..(i - 1) : j \in used

\* lines 34-62: the updater of joinLobby
joinLobby(l, localPlayerId) ==
    IF IsMember(l, localPlayerId) THEN l
    ELSE LET slot == FirstFree(usedSlots(l))
         IN  IF slot = -1 THEN l
             ELSE [l EXCEPT !.hostId = IF @ = "" THEN localPlayerId ELSE @,
                            !.players = Append(@, [playerId |-> localPlayerId,
                                                   slot |-> slot])]

\* lines 72-81: the updater of leaveLobby
leaveLobby(l, localPlayerId) ==
    LET newPlayers == SelectSeq(l.players, LAMBDA info : info.playerId # localPlayerId)
    IN  [l EXCEPT !.hostId = IF @ = localPlayerId
                             THEN (IF newPlayers = <<>> THEN ""
                                   ELSE newPlayers[1].playerId)
                             ELSE @,
                  !.players = newPlayers]

\* lines 113-118: the updater of setPlaying
setPlaying(l) == [l EXCEPT !.phase = "playing"]

\* lines 163-169
alivePlayers(l, localPlayerId, states) ==
    SelectSeq(l.players,
              LAMBDA info : info.playerId # localPlayerId /\ states[info.slot] = "playing")

\* lines 161-179: the updater of reportDeath, over the playerStates of the
\* caller's render
reportDeath(l, localPlayerId, states) ==
    LET alive == alivePlayers(l, localPlayerId, states)
    IN  IF Len(alive) <= 1
        THEN [l EXCEPT !.phase = "finished",
                       !.winnerId = IF alive = <<>> THEN localPlayerId
                                    ELSE alive[1].playerId]
        ELSE l

\* lines 68-71 and the setters of lines 124, 196: a slot's state is replaced
SetSlot(states, slot, status) ==
    IF slot >= 0 /\ slot < 4 THEN [states EXCEPT ![slot] = status] ELSE states

IdleSync ==
    /\ lobby = JoinedLobby
    /\ garbageQueue = [p \in Players |-> <<>>]
    /\ renderedQueue = [p \in Players |-> <<>>]
    /\ processedGarbageIds = [p \in Players |-> {}]
    /\ net = {}
    /\ sentEvents = <<>>
    /\ returned = <<>>
    /\ lastSync = NoSync
    /\ slotStates = NoPlayerStates
    /\ gameOvers = {}

----------------------------------------------------------------------------
(* The matcher applied to bounded inputs: boards of the sizes MatchDims with *)
(* at most MaxAtoms non-empty cells, patterns of MatchPatterns.              *)

MaxAtoms == 5

\* what the variables of the other specifications hold where they are unused
NoTargetInput ==
    [clearCount |-> 0, prevName |-> NoName, customMolecules |-> <<>>,
     rnd |-> [roll |-> 0, draws |-> << 0 >>]]

NoAttackInput == [pattern |-> <<>>, userId |-> "unknown", players |-> <<>>,
                  playerStates |-> <<>>]

NoSearch == [best |-> NullMatch, seen |-> {}]

IdleAttack ==
    /\ aInput = NoAttackInput
    /\ aQueue = <<>>
    /\ aDone = FALSE
    /\ kOffered = <<>>
    /\ kSt = NoSearch

IdlePure ==
    /\ IdleAttack
    /\ tInput = NoTargetInput
    /\ tTarget = NullMol
    /\ pInput = <<>>
    /\ pGraph = parseSmilesGraph(<<>>)
    /\ pDone = FALSE

IdleEngine == NewGameEngine(1, 1, 100, << FALLBACK_MOLECULE >>, [roll |-> 0, draws |-> << 0 >>])

NoCall == [op |-> "none", arg |-> 0, ok |-> FALSE, match |-> NullMatch]

IdleHook ==
    /\ tickId = NoInterval
    /\ highlightTimeoutRef = NoTimeout
    /\ overlay = NoOverlay
    /\ hasStarted = FALSE
    /\ showHelp = FALSE
    /\ preHelpRunningRef = FALSE
    /\ isDead = FALSE
    /\ inbox = <<>>
    /\ arrived = 0
    /\ evt = NoEvt
    /\ timers = NoTimers

MatchDims == { <<3, 2>>, <<2, 3>> }

MatchPatterns ==
    { <<>>,
      << "C", "C" >>,
      << "C", "O" >>,
      << "C", "O", "C" >>,
      << "C", "C", "(", "O", ")", "C" >> }

NonEmptyCount(board, w, h) ==
    Cardinality({c \in (0..(w - 1)) \X (0..(h - 1)) : board[c[2]][c[1]] # Empty})

InitMatch ==
    /\ \E d \in MatchDims :
         /\ mWidth = d[1]
         /\ mHeight = d[2]
         /\ mBoard = EmptyBoardOf(d[1], d[2])
    /\ mPattern = <<>>
    /\ mResult = NullMatch
    /\ mDone = FALSE
    /\ engine = IdleEngine
    /\ lastCall = NoCall
    /\ ops = 0
    /\ IdleHook
    /\ IdleSync
    /\ IdlePure

\* a cell of the input board is set (a lock or a garbage row wrote it)
PlaceCell ==
    /\ NonEmptyCount(mBoard, mWidth, mHeight) < MaxAtoms
    /\ \E x \in 0..(mWidth - 1), y \in 0..(mHeight - 1), c \in Cell \ {Empty} :
         /\ mBoard[y][x] = Empty
         /\ mBoard' = [mBoard EXCEPT ![y][x] = c]
    /\ mPattern' = <<>>
    /\ mResult' = NullMatch
    /\ mDone' = FALSE
    /\ UNCHANGED <<mWidth, mHeight>>
    /\ UNCHANGED engineVars
    /\ UNCHANGED hookVars
    /\ UNCHANGED syncVars
    /\ UNCHANGED pureVars

\* findBestMatchForGraph(parseSmilesGraph(p), board, width, height)
RunMatch ==
    /\ ~mDone
    /\ \E p \in MatchPatterns :
         /\ mPattern' = p
         /\ mResult' = findBestMatchForGraph(parseSmilesGraph(p), mBoard, mWidth, mHeight)
    /\ mDone' = TRUE
    /\ UNCHANGED <<mWidth, mHeight, mBoard>>
    /\ UNCHANGED engineVars
    /\ UNCHANGED hookVars
    /\ UNCHANGED syncVars
    /\ UNCHANGED pureVars

NextMatch == PlaceCell \/ RunMatch

SpecMatch == InitMatch /\ [][NextMatch]_vars

----------------------------------------------------------------------------
(* The engine driven through its public interface: any caller, any order.   *)
(* lastCall records the last call, its argument and result, and the match   *)
(* the caller holds (the last one returned to it and not yet cleared).      *)

MaxOps == 3

MaxPrePieces == 3

\* the configurations new GameEngine(width, height, tickMs, customMolecules)
\* is constructed with
EngineConfigs ==
    { [width |-> 2, height |-> 3, tickMs |-> 100],
      [width |-> 1, height |-> 8, tickMs |-> 50] }

EnginePool == << Mol("ethane", << "C", "C" >>), Mol("methanol", << "C", "O" >>) >>

\* floor(100 * Math.random()): below and above the oxygen thresholds
Rolls == { 10, 90 }

\* for each index of a pool of this length, the least value of Math.random()
\* that draws it
DrawsFor(length) ==
    { ((i - 1) * RandomGrain + length - 1) \div length : i \in 1..length }

Rnds(pool) ==
    [roll : { 0 }, draws : [1..(Len(pool) + 1) -> DrawsFor(Len(pool))]]

GarbageCounts == { 1, 7 }

Gaps(e, count) ==
    [MaxOf(0, e.height - MinOf(count, MAX_GARBAGE_ROWS))..(e.height - 1)
        -> 0..(e.width - 1)]

Call(op, arg, ok, match) == [op |-> op, arg |-> arg, ok |-> ok, match |-> match]

\* the match the caller holds after a call that returned `match`
Held(match) == IF IsNull(match) THEN lastCall.match ELSE match

IdleMatcher ==
    /\ mWidth = 1
    /\ mHeight = 1
    /\ mBoard = EmptyBoardOf(1, 1)
    /\ mPattern = <<>>
    /\ mResult = NullMatch
    /\ mDone = FALSE

\* the caller's spawn(); hardDrop() for each of rolls[i..], up to the first
\* failed spawn or the first match.  returns [e, match]
RECURSIVE DropPieces(_, _, _)
DropPieces(e, rolls, i) ==
    IF i > Len(rolls) THEN [e |-> e, match |-> NullMatch]
    ELSE LET sp == spawn(e, rolls[i])
         IN  IF ~sp.ok THEN [e |-> e, match |-> NullMatch]
             ELSE CHOOSE res \in
                    { IF ~IsNull(hd.match) THEN hd ELSE DropPieces(hd.e, rolls, i + 1) :
                        hd \in { hardDrop(sp.e) } } : TRUE

PreRolls == UNION { [1..n -> Rolls] : n \in 0..MaxPrePieces }

\* a new engine into which the caller has dropped up to MaxPrePieces pieces
InitEngine ==
    /\ IdleMatcher
    /\ IdleHook
    /\ IdleSync
    /\ IdlePure
    /\ \E c \in EngineConfigs : \E rnd \in Rnds(EnginePool) : \E rolls \in PreRolls :
       \E pre \in { DropPieces(NewGameEngine(c.width, c.height, c.tickMs, EnginePool, rnd),
                                rolls, 1) } :
       \E run \in BOOLEAN : \E soft \in { FALSE, run } :
           \* the caller that dropped the pieces has or has not set running,
           \* and the soft drop of a running engine is on or off
           /\ engine = [pre.e EXCEPT !.running = run, !.softDrop = soft]
           /\ lastCall = Call("none", 0, FALSE, pre.match)
    /\ ops = 0

EngineStep(e, call) ==
    /\ ops < MaxOps
    /\ engine' = e
    /\ lastCall' = call
    /\ ops' = ops + 1
    /\ UNCHANGED matchVars
    /\ UNCHANGED hookVars
    /\ UNCHANGED syncVars
    /\ UNCHANGED pureVars

\* reset(engine, rnd) for every rnd, one successor per target drawn
EReset ==
    \E t0 \in { selectTarget(0, NoName, engine.customMolecules, rnd) :
                   rnd \in Rnds(EnginePool) } :
        EngineStep(ResetTo(engine, t0), Call("reset", 0, TRUE, NullMatch))

\* the caller's assignments engine.running = b, engine.softDrop = b
ESetRunning ==
    \E b \in BOOLEAN :
        EngineStep([engine EXCEPT !.running = b], Call("running", 0, b, lastCall.match))

ESetSoftDrop ==
    \E b \in BOOLEAN :
        EngineStep([engine EXCEPT !.softDrop = b], Call("softDrop", 0, b, lastCall.match))

ESpawn ==
    \E r \in Rolls :
        \E res \in { spawn(engine, r) } :
            EngineStep(res.e, Call("spawn", 0, res.ok, lastCall.match))

ETick ==
    \E r \in Rolls :
        \E res \in { tick(engine, r) } :
            \* arg: the number of matches in the TickResult
            EngineStep(res.e, Call("tick", IF IsNull(res.match) THEN 0 ELSE 1,
                                   res.gameOver, Held(res.match)))

EHardDrop ==
    \E res \in { hardDrop(engine) } :
        EngineStep(res.e, Call("hardDrop", 0, ~IsNull(res.match), Held(res.match)))

EMoveHorizontal ==
    \E dx \in { -1, 1 } :
        \E res \in { moveHorizontal(engine, dx) } :
            EngineStep(res.e, Call("moveHorizontal", dx, res.ok, lastCall.match))

\* pickNewTarget(engine, rnd) for every rnd, one successor per target drawn
EPickNewTarget ==
    \E next \in { selectTarget(engine.score, engine.target.name,
                               engine.customMolecules, rnd) : rnd \in Rnds(EnginePool) } :
        \E res \in { PickTarget(engine, next) } :
            EngineStep(res.e, Call("pickNewTarget", 0, ~IsNull(res.match), Held(res.match)))

\* arg: the number of cells that were left hanging by the removal
EClearMatch ==
    /\ ~IsNull(lastCall.match)
    /\ LET cleared == clearMatchNoGravity(engine, lastCall.match).board
           hanging == { c \in (0..(engine.width - 1)) \X (0..(engine.height - 2)) :
                          /\ cleared[c[2]][c[1]] # Empty
                          /\ cleared[c[2] + 1][c[1]] = Empty }
       IN  EngineStep(clearMatch(engine, lastCall.match),
                      Call("clearMatch", Cardinality(hanging), TRUE, NullMatch))

EBoostSpeed ==
    \E n \in { 1, 2 } :
        \E res \in { boostSpeed(engine, n) } :
            EngineStep(res.e, Call("boostSpeed", n, res.ok, lastCall.match))

EAddGarbageRows ==
    \E k \in GarbageCounts : \E gaps \in Gaps(engine, k) :
        \E res \in { addGarbageRows(engine, k, gaps) } :
            EngineStep(res.e, Call("addGarbageRows", k, res.ok, lastCall.match))

NextEngine ==
    \/ EReset
    \/ ESetRunning
    \/ ESetSoftDrop
    \/ ESpawn
    \/ ETick
    \/ EHardDrop
    \/ EMoveHorizontal
    \/ EPickNewTarget
    \/ EClearMatch
    \/ EBoostSpeed
    \/ EAddGarbageRows

SpecEngine == InitEngine /\ [][NextEngine]_vars

----------------------------------------------------------------------------
(* The hook mounted in a component: its timers fire, keys are pressed, the  *)
(* component calls what the hook returns, and garbage events arrive for      *)
(* consumeGarbage to return.                                                *)

MaxScore == 2

MaxArrivals == 1

HookPool == << Mol("ethane", << "C", "C" >>), Mol("methanol", << "C", "O" >>) >>

\* useGameEngine({ width, height, tickMs, customMolecules })
HookOpts == [width |-> 2, height |-> 2, tickMs |-> 280, customMolecules |-> HookPool]

Keys == { "h", "Escape", "r", "ArrowLeft", "ArrowRight", "ArrowDown", "Space", "x" }

\* evt.rows of the events that arrive
ArrivingRows == { 1 }

\* the events one update of the shared garbage queue brings to this player
ArrivingEvents ==
    { << [rows |-> a] >> : a \in ArrivingRows }
      \cup { << [rows |-> a], [rows |-> b] >> : a \in ArrivingRows, b \in ArrivingRows }

\* the targets selectTarget can return to reset, and to pickNewTarget on e
ResetTargets(e) ==
    { selectTarget(0, NoName, e.customMolecules, rnd) : rnd \in Rnds(e.customMolecules) }

NextTargets(e) ==
    { selectTarget(e.score, e.target.name, e.customMolecules, rnd) :
        rnd \in Rnds(e.customMolecules) }

\* the targets pickNewTarget can draw right after reset, and for each a target
\* reset may have drawn before it
StartTargets(e) ==
    UNION { NextTargets(ResetTo(e, t0)) : t0 \in ResetTargets(e) }

ResetTargetFor(e, next) ==
    CHOOSE t0 \in ResetTargets(e) : next \in NextTargets(ResetTo(e, t0))

\* one gap function for each event of the inbox
GapsFor(e, events) ==
    { g \in [1..Len(events) -> UNION { Gaps(e, k) : k \in ArrivingRows }] :
        \A i \in 1..Len(events) : g[i] \in Gaps(e, events[i].rows) }

\* the engine, refs and state a handler starts from
Cur ==
    [engine |-> engine, tickId |-> tickId, highlightTimeoutRef |-> highlightTimeoutRef,
     overlay |-> overlay, hasStarted |-> hasStarted, showHelp |-> showHelp,
     preHelpRunningRef |-> preHelpRunningRef, isDead |-> isDead, inbox |-> inbox,
     evt |-> NoEvt, timers |-> timers]

\* the variables hold the record s
Holds(s) ==
    /\ engine = s.engine
    /\ tickId = s.tickId
    /\ highlightTimeoutRef = s.highlightTimeoutRef
    /\ overlay = s.overlay
    /\ hasStarted = s.hasStarted
    /\ showHelp = s.showHelp
    /\ preHelpRunningRef = s.preHelpRunningRef
    /\ isDead = s.isDead
    /\ inbox = s.inbox
    /\ evt = s.evt
    /\ timers = s.timers

\* the handler has returned `after`
Commit(after) ==
    \E s \in { after } :
        /\ engine' = s.engine
        /\ tickId' = s.tickId
        /\ highlightTimeoutRef' = s.highlightTimeoutRef
        /\ overlay' = s.overlay
        /\ hasStarted' = s.hasStarted
        /\ showHelp' = s.showHelp
        /\ preHelpRunningRef' = s.preHelpRunningRef
        /\ isDead' = s.isDead
        /\ inbox' = s.inbox
        /\ evt' = s.evt
        /\ timers' = s.timers
        /\ UNCHANGED <<lastCall, ops, arrived>>
        /\ UNCHANGED matchVars
        /\ UNCHANGED syncVars
        /\ UNCHANGED pureVars

\* a state of the record shape before the engine exists
Unmounted(e) ==
    [engine |-> e, tickId |-> NoInterval, highlightTimeoutRef |-> NoTimeout,
     overlay |-> NoOverlay, hasStarted |-> FALSE, showHelp |-> FALSE,
     preHelpRunningRef |-> FALSE, isDead |-> FALSE, inbox |-> <<>>,
     evt |-> NoEvt, timers |-> NoTimers]

\* lines 320-327: the mount effect calls prepareForStart, which constructs the
\* engine (getEngine)
Init ==
    /\ IdleMatcher
    /\ IdleSync
    /\ IdlePure
    /\ lastCall = NoCall
    /\ ops = 0
    /\ arrived = 0
    /\ \E rnd \in Rnds(HookPool) :
       \E new \in { NewGameEngine(HookOpts.width, HookOpts.height, HookOpts.tickMs,
                                  HookOpts.customMolecules, rnd) } :
       \E next \in StartTargets(new) : \E r \in Rolls :
       \E s \in { prepareForStart(Unmounted(new), ResetTargetFor(new, next), next, r) } :
           Holds(s)

InPlay == engine.score < MaxScore

\* the interval fires
TickFires ==
    /\ tickId.on
    /\ InPlay
    /\ \E gaps \in GapsFor(engine, inbox) : \E r \in Rolls :
         Commit(TickCallback(Cur, gaps, r))

\* the highlight timeout fires
HighlightFires ==
    /\ highlightTimeoutRef.on
    /\ \E next \in NextTargets(engine) : \E r \in Rolls :
         Commit(HighlightCallback(Cur, next, r))

\* a key goes down; only "r" draws targets, only "r" and "Space" draw an atom
KeyDown ==
    /\ InPlay
    /\ \E key \in Keys :
         \E next \in IF key = "r" THEN StartTargets(engine) ELSE { engine.target } :
         \E r \in IF key \in { "r", "Space" } THEN Rolls ELSE { 0 } :
             Commit(onKeyDown(Cur, key, ResetTargetFor(engine, next), next, r))

KeyUp ==
    \E key \in { "ArrowDown", "x" } :
        Commit(onKeyUp(Cur, key))

\* the component calls start, prepareForStart, openHelp, closeHelp
Start ==
    \E next \in StartTargets(engine) : \E r \in Rolls :
        Commit(start(Cur, showHelp, ResetTargetFor(engine, next), next, r))

PrepareForStart ==
    \E next \in StartTargets(engine) : \E r \in Rolls :
        Commit(prepareForStart(Cur, ResetTargetFor(engine, next), next, r))

OpenHelp == Commit(openHelp(Cur))

CloseHelp == Commit(closeHelp(Cur))

\* a garbage event addressed to this player arrives
GarbageArrives ==
    /\ arrived < MaxArrivals
    /\ \E events \in ArrivingEvents :
         /\ inbox' = inbox \o events
         /\ arrived' = arrived + 1
         /\ evt' = NoEvt
         /\ UNCHANGED <<engine, lastCall, ops, tickId, highlightTimeoutRef, overlay,
                        hasStarted, showHelp, preHelpRunningRef, isDead, timers>>
         /\ UNCHANGED matchVars
         /\ UNCHANGED syncVars
         /\ UNCHANGED pureVars

Next ==
    \/ TickFires
    \/ HighlightFires
    \/ KeyDown
    \/ KeyUp
    \/ Start
    \/ PrepareForStart
    \/ OpenHelp
    \/ CloseHelp
    \/ GarbageArrives

Spec == Init /\ [][Next]_vars

----------------------------------------------------------------------------
(* SpecSync: one game of two clients of useMultiplayerSync, from the        *)
(* host's startGame on                                                      *)

MaxSends == 2

MaxInFlight == 2

\* what Date.now() and Math.random() can add to an id; two events of one sender
\* can get the same id
Nonces == { 1, 2 }

SyncStep(op, localPlayerId, events) ==
    /\ lastSync' = [op |-> op, player |-> localPlayerId, events |-> events]
    /\ UNCHANGED <<lobby, slotStates, gameOvers>>
    /\ UNCHANGED matchVars
    /\ UNCHANGED engineVars
    /\ UNCHANGED hookVars
    /\ UNCHANGED pureVars

\* the host has called startGame and every client has rendered its result
InitSync ==
    /\ IdleMatcher
    /\ engine = IdleEngine
    /\ lastCall = NoCall
    /\ ops = 0
    /\ IdleHook
    /\ IdlePure
    /\ \E g \in { startGame(JoinedLobby, HostId) } :
         /\ lobby = g.lobby
         /\ garbageQueue = [p \in Players |-> g.garbageQueue]
         /\ renderedQueue = [p \in Players |-> g.garbageQueue]
         /\ processedGarbageIds = [p \in Players |-> g.processedGarbageIds]
    /\ net = {}
    /\ sentEvents = <<>>
    /\ returned = <<>>
    /\ lastSync = NoSync
    /\ slotStates = NoPlayerStates
    /\ gameOvers = {}

\* lines 130-142
SendGarbage ==
    /\ Len(sentEvents) < MaxSends
    /\ \E p \in Players, toPlayerId \in Players, rows \in ArrivingRows, nonce \in Nonces :
       \E event \in { NewEvent(p, toPlayerId, rows, nonce, Len(sentEvents) + 1) } :
       \E queue \in { Append(garbageQueue[p], event) } :
           /\ Cardinality(net \cup Broadcast(p, queue)) <= MaxInFlight
           /\ garbageQueue' = [garbageQueue EXCEPT ![p] = queue]
           /\ net' = net \cup Broadcast(p, queue)
           /\ sentEvents' = Append(sentEvents, event)
           /\ returned' = Append(returned, 0)
           /\ UNCHANGED <<renderedQueue, processedGarbageIds>>
           /\ SyncStep("sendGarbage", p, << event >>)

\* how many times `serial` occurs among events
Occurrences(events, serial) ==
    Cardinality({ i \in DOMAIN events : events[i].serial = serial })

\* lines 144-158: an iteration of the tick loop calls the client's current
\* consumeGarbage
ConsumeGarbage ==
    \E p \in Players :
    \E myEvents \in { SelectSeq(renderedQueue[p],
                                LAMBDA e : IsMine(p, processedGarbageIds[p], e)) } :
        /\ IF Len(myEvents) > 0
           THEN \E processed \in { processedGarbageIds[p] \cup IdsOf(myEvents) } :
                \E queue \in { WithoutProcessed(garbageQueue[p], processed) } :
                    /\ Cardinality(net \cup Broadcast(p, queue)) <= MaxInFlight
                    /\ processedGarbageIds' = [processedGarbageIds EXCEPT ![p] = processed]
                    /\ garbageQueue' = [garbageQueue EXCEPT ![p] = queue]
                    /\ net' = net \cup Broadcast(p, queue)
           ELSE UNCHANGED <<processedGarbageIds, garbageQueue, net>>
        /\ returned' = [n \in DOMAIN returned |-> returned[n] + Occurrences(myEvents, n)]
        /\ UNCHANGED <<renderedQueue, sentEvents>>
        /\ SyncStep("consumeGarbage", p, myEvents)

\* a queue value reaches a client and replaces its copy
Deliver ==
    \E m \in net :
        /\ garbageQueue' = [garbageQueue EXCEPT ![m.to] = m.value]
        /\ net' = net \ { m }
        /\ UNCHANGED <<renderedQueue, processedGarbageIds, sentEvents, returned>>
        /\ SyncStep("deliver", m.to, <<>>)

\* a client renders: consumeGarbage is created anew over its copy (line 158)
Render ==
    \E p \in Players :
        /\ renderedQueue[p] # garbageQueue[p]
        /\ renderedQueue' = [renderedQueue EXCEPT ![p] = garbageQueue[p]]
        /\ UNCHANGED <<garbageQueue, processedGarbageIds, net, sentEvents, returned>>
        /\ SyncStep("render", p, <<>>)

NextSync ==
    \/ SendGarbage
    \/ ConsumeGarbage
    \/ Deliver
    \/ Render

SpecSync == InitSync /\ [][NextSync]_vars

----------------------------------------------------------------------------
(* Claims about the matcher, under SpecMatch *)

AtomCells(board, w, h) ==
    {c \in [x : 0..(w - 1), y : 0..(h - 1)] : board[c.y][c.x] \in Atom}

\* every injective, element-preserving map of the pattern nodes to board cells
\* that sends each pattern edge to a 4-directionally adjacent pair
Embeddings(graph, board, w, h) ==
    LET n == Len(graph.nodes)
    IN  {f \in [1..n -> AtomCells(board, w, h)] :
           /\ \A i, j \in 1..n : i # j => f[i] # f[j]
           /\ \A i \in 1..n : board[f[i].y][f[i].x] = graph.nodes[i].element
           /\ \A i \in 1..n : \A k \in 1..Len(graph.adjacency[i]) :
                Manhattan(f[i], f[graph.adjacency[i][k]]) = 1}

\* candidate b is strictly better than candidate a: larger maxY, then smaller
\* minX, then lexicographically smaller signature
Beats(b, a) ==
    \/ b.maxY > a.maxY
    \/ (b.maxY = a.maxY /\ b.minX < a.minX)
    \/ (b.maxY = a.maxY /\ b.minX = a.minX /\ StrLess(b.signature, a.signature))

mGraph == parseSmilesGraph(mPattern)

SoundCandidate(m, graph, board, w, h) ==
    LET n == Len(graph.nodes)
    IN  /\ Len(m.coords) = n
        /\ \A i \in 1..n : m.coords[i].x \in 0..(w - 1) /\ m.coords[i].y \in 0..(h - 1)
        /\ \A i, j \in 1..n : i # j => m.coords[i] # m.coords[j]
        /\ \A i \in 1..n :
             /\ board[m.coords[i].y][m.coords[i].x] = graph.nodes[i].element
             /\ board[m.coords[i].y][m.coords[i].x] \notin {Empty, Garbage}
        /\ \A i \in 1..n : \A k \in 1..Len(graph.adjacency[i]) :
             Manhattan(m.coords[i], m.coords[graph.adjacency[i][k]]) = 1

\* C1 (matcher soundness): a candidate returned by findBestMatchForGraph has one
\* coordinate per pattern node, in bounds and pairwise distinct; the cell at node
\* i's coordinate holds node i's element (so never Empty or Garbage); every
\* pattern edge joins two coordinates at Manhattan distance 1.
C1_MatcherSound ==
    (mDone /\ ~IsNull(mResult)) =>
        SoundCandidate(mResult, mGraph, mBoard, mWidth, mHeight)

\* a branched pattern (4 nodes) was matched on a board that also holds garbage
C1_Witness ==
    /\ mDone
    /\ Len(mResult.coords) = 4
    /\ \E x \in 0..(mWidth - 1), y \in 0..(mHeight - 1) : mBoard[y][x] = Garbage

\* C2 as stated (matcher optimality): whenever at least one embedding of the
\* pattern graph exists, a candidate is returned and no embedding is better
\* (larger maxY, then smaller minX, then smaller signature).
C2_Original ==
    (mDone /\ Embeddings(mGraph, mBoard, mWidth, mHeight) # {}) =>
        /\ ~IsNull(mResult)
        /\ \A f \in Embeddings(mGraph, mBoard, mWidth, mHeight) :
             ~Beats(createCandidate(f), mResult)

\* C2 amended: the same for a pattern graph with at least one node; the
\* returned candidate covers the cells of one of the embeddings.
C2_MatcherBest ==
    (mDone /\ Len(mGraph.nodes) > 0
           /\ Embeddings(mGraph, mBoard, mWidth, mHeight) # {}) =>
        /\ ~IsNull(mResult)
        /\ \E f \in Embeddings(mGraph, mBoard, mWidth, mHeight) :
             createCandidate(f).signature = mResult.signature
        /\ \A f \in Embeddings(mGraph, mBoard, mWidth, mHeight) :
             ~Beats(createCandidate(f), mResult)

\* two disjoint occurrences of CC in different rows; the lower one is returned
C2_Witness ==
    /\ mDone
    /\ mPattern = << "C", "C" >>
    /\ \E f, g \in Embeddings(mGraph, mBoard, mWidth, mHeight) :
         /\ {f[1], f[2]} \cap {g[1], g[2]} = {}
         /\ f[1].y = f[2].y /\ g[1].y = g[2].y /\ f[1].y < g[1].y
         /\ mResult.maxY = g[1].y
         /\ mResult.maxY = mHeight - 1

\* C3 as stated (matcher completeness): none is returned only when no embedding
\* exists.
C3_Original ==
    (mDone /\ IsNull(mResult)) => Embeddings(mGraph, mBoard, mWidth, mHeight) = {}

BottomRowAllCarbon ==
    \A x \in 0..(mWidth - 1) : mBoard[mHeight - 1][x] = Carbon

\* C3 amended: none is returned only when the pattern graph has no node or no
\* embedding exists; with the bottom row all Carbon and pattern CC a match is
\* found with maxY = height - 1.
C3_MatcherComplete ==
    /\ (mDone /\ IsNull(mResult)) =>
          \/ Len(mGraph.nodes) = 0
          \/ Embeddings(mGraph, mBoard, mWidth, mHeight) = {}
    /\ (mDone /\ mPattern = << "C", "C" >> /\ BottomRowAllCarbon) =>
          (~IsNull(mResult) /\ mResult.maxY = mHeight - 1)

\* none is returned for a three-atom pattern although the board holds at least
\* three atoms
C3_Witness ==
    /\ mDone
    /\ Len(mGraph.nodes) = 3
    /\ IsNull(mResult)
    /\ Cardinality(AtomCells(mBoard, mWidth, mHeight)) >= 3

----------------------------------------------------------------------------
(* Claims about the engine (SpecEngine) *)

\* a step that is a call of `op` on the engine
CallOf(op) == ops' = ops + 1 /\ lastCall'.op = op

GravityOK(e) ==
    \A x \in 0..(e.width - 1) : \A y \in 0..(e.height - 2) :
        e.board[y][x] # Empty => e.board[y + 1][x] # Empty

\* C4: after clearMatch returns, in no column does an Empty cell sit below a
\* non-empty cell (Carbon, Oxygen or Garbage), whatever the board was before.
C4_GravityAfterClear ==
    lastCall.op = "clearMatch" => GravityOK(engine)

\* clearMatch has run on a board where removing the match left a cell hanging
C4_Witness ==
    /\ lastCall.op = "clearMatch"
    /\ lastCall.arg > 0
    /\ \E x \in 0..(engine.width - 1) : engine.board[engine.height - 1][x] # Empty

\* a non-empty cell in the top k rows of the board
TopRowsOccupied(e, k) ==
    \E y \in 0..(e.height - 1) : \E x \in 0..(e.width - 1) :
        y < k /\ e.board[y][x] # Empty

\* C5 as stated: for every k >= 1, addGarbageRows(k) on a board with a
\* non-empty cell in its top k rows fails and leaves board and active piece
\* unchanged.
C5_Original ==
    [][ (CallOf("addGarbageRows") /\ TopRowsOccupied(engine, lastCall'.arg))
        => /\ ~lastCall'.ok
           /\ engine'.board = engine.board
           /\ engine'.active = engine.active ]_vars

\* C5: for every k >= 1, addGarbageRows(k) on a board with a non-empty cell in
\* its top min(k, 6) rows fails and leaves board and active piece unchanged.
C5_GarbageOverflow ==
    [][ (CallOf("addGarbageRows")
         /\ TopRowsOccupied(engine, MinOf(lastCall'.arg, MAX_GARBAGE_ROWS)))
        => /\ ~lastCall'.ok
           /\ engine'.board = engine.board
           /\ engine'.active = engine.active ]_vars

\* addGarbageRows(k) with k > 6 has failed while a piece was falling
C5_Witness ==
    /\ lastCall.op = "addGarbageRows"
    /\ lastCall.arg > MAX_GARBAGE_ROWS
    /\ ~lastCall.ok
    /\ engine.active # NullActive
    /\ TopRowsOccupied(engine, MAX_GARBAGE_ROWS)

RatLeq(a, b) == ~RatLess(b, a)

\* C6 as stated: for any base tick, within one game currentTickMs never
\* increases across tick, hardDrop, pickNewTarget and boostSpeed calls, never
\* exceeds the base tick, and each successful clear scales it by 0.9 floored at
\* 80 ms.
C6_Original ==
    /\ [][ (\E op \in { "tick", "hardDrop", "pickNewTarget", "boostSpeed" } : CallOf(op))
           => RatLeq(engine'.currentTickMs, engine.currentTickMs) ]_vars
    /\ [] RatLeq(engine.currentTickMs, engine.tickMs)
    /\ [][ (CallOf("tick") \/ CallOf("pickNewTarget")) /\ engine'.score = engine.score + 1
           => engine'.currentTickMs =
                RatMax(Rat(MIN_TICK_MS, 1), RatMul(engine.currentTickMs, Rat(9, 10))) ]_vars

----------------------------------------------------------------------------
(* SpecTarget: selectTarget applied to bounded arguments and bounded         *)
(* outcomes of Math.random()                                                 *)

MaxClearCount == 7

MaxDraws == 2

\* floor(100 * Math.random()) on both sides of the tier thresholds
TierRolls == { 0, 45, 75, 99 }

TargetPrevNames == { NoName, "ethane", "2-propanol", "methanol" }

\* customMolecules: undefined, null or [], one molecule, two molecules
TargetPools == { <<>>, << Mol("methanol", << "C", "O" >>) >>, HookPool }

TargetDraws == UNION { [1..n -> 0..(RandomGrain - 1)] : n \in 1..MaxDraws }

InitTarget ==
    /\ IdleMatcher
    /\ engine = IdleEngine
    /\ lastCall = NoCall
    /\ ops = 0
    /\ IdleHook
    /\ IdleSync
    /\ IdleAttack
    /\ pInput = <<>>
    /\ pGraph = parseSmilesGraph(<<>>)
    /\ pDone = FALSE
    /\ tInput \in [clearCount : 0..MaxClearCount, prevName : TargetPrevNames,
                   customMolecules : TargetPools,
                   rnd : [roll : TierRolls, draws : TargetDraws]]
    /\ tTarget = NullMol

\* selectTarget(clearCount, prevName, customMolecules)
SelectTarget ==
    /\ tTarget = NullMol
    /\ tTarget' = selectTarget(tInput.clearCount, tInput.prevName,
                               tInput.customMolecules, tInput.rnd)
    /\ UNCHANGED <<tInput, pInput, pGraph, pDone, aInput, aQueue, aDone, kOffered, kSt>>
    /\ UNCHANGED matchVars
    /\ UNCHANGED engineVars
    /\ UNCHANGED hookVars
    /\ UNCHANGED syncVars

NextTarget == SelectTarget

SpecTarget == InitTarget /\ [][NextTarget]_vars

----------------------------------------------------------------------------
(* SpecParse: parseSmilesGraph applied to every string of at most            *)
(* MaxPatternLen characters of PatternChars ("x" is any character but C, O    *)
(* and the parentheses)                                                      *)

MaxPatternLen == 6

PatternChars == { "C", "O", "(", ")", "x" }

InitParse ==
    /\ IdleMatcher
    /\ engine = IdleEngine
    /\ lastCall = NoCall
    /\ ops = 0
    /\ IdleHook
    /\ IdleSync
    /\ IdleAttack
    /\ tInput = NoTargetInput
    /\ tTarget = NullMol
    /\ pInput \in UNION { [1..n -> PatternChars] : n \in 0..MaxPatternLen }
    /\ pGraph = parseSmilesGraph(<<>>)
    /\ pDone = FALSE

\* parseSmilesGraph(pattern)
Parse ==
    /\ ~pDone
    /\ pGraph' = parseSmilesGraph(pInput)
    /\ pDone' = TRUE
    /\ UNCHANGED <<tInput, tTarget, pInput, aInput, aQueue, aDone, kOffered, kSt>>
    /\ UNCHANGED matchVars
    /\ UNCHANGED engineVars
    /\ UNCHANGED hookVars
    /\ UNCHANGED syncVars

NextParse == Parse

SpecParse == InitParse /\ [][NextParse]_vars

----------------------------------------------------------------------------
(* SpecAttack: handleMatchMolecule of Activity.tsx, with calculateGarbageRows *)
(* of garbage.ts and sendGarbage of useMultiplayerSync.ts, on the lobbies,   *)
(* player states and patterns below.  lobby.players is the sequence of its   *)
(* values in insertion order, playerStates[slot + 1] the state of a slot.    *)

\* garbage.ts lines 3-7 without Math.max(1, ...)
calculateGarbageRowsUnfloored(moleculePattern) ==
    Len(parseSmilesGraph(moleculePattern).nodes) \div 3

\* garbage.ts lines 3-7
calculateGarbageRows(moleculePattern) ==
    LET graph == parseSmilesGraph(moleculePattern)
        atomCount == Len(graph.nodes)
    IN  MaxOf(1, atomCount \div 3)

NoPlayerState == [status |-> "none"]

\* Activity.tsx lines 145-150: the loop over the opponents from the i-th on
RECURSIVE SendToOpponents(_, _, _, _, _, _)
SendToOpponents(queue, opponents, i, playerStates, userId, rows) ==
    IF i > Len(opponents) THEN queue
    ELSE LET opp == opponents[i]
             oppState == playerStates[opp.slot + 1]
         IN  IF oppState.status = "playing"
             THEN SendToOpponents(
                      Append(queue, NewEvent(userId, opp.playerId, rows,
                                             Len(queue), Len(queue) + 1)),
                      opponents, i + 1, playerStates, userId, rows)
             ELSE SendToOpponents(queue, opponents, i + 1, playerStates, userId, rows)

\* Activity.tsx lines 139-153; returns the garbage queue after the calls of
\* sendGarbage
handleMatchMolecule(queue, in) ==
    LET playerCount == Len(in.players)
        IsOpponent(p) == p.playerId # in.userId
    IN  IF playerCount <= 1 THEN queue
        ELSE SendToOpponents(queue, SelectSeq(in.players, IsOpponent), 1,
                             in.playerStates, in.userId,
                             calculateGarbageRows(in.pattern))

MaxLobby == 3

AttackPlayers == { "p1", "p2", "p3" }

\* the lobbies of up to MaxLobby players, joinLobby having given the k-th to
\* join the slot k - 1
AttackLobbies ==
    { [k \in DOMAIN ids |-> [playerId |-> ids[k], slot |-> k - 1]] :
        ids \in { f \in UNION { [1..m -> AttackPlayers] : m \in 0..MaxLobby } :
                    \A i, j \in DOMAIN f : i # j => f[i] # f[j] } }

AttackStates ==
    [1..MaxLobby -> { NoPlayerState, [status |-> "playing"], [status |-> "dead"] }]

AttackPatterns ==
    { << "C", "C" >>,
      << "C", "C", "O" >>,
      << "C", "C", "(", "C", ")", "C", "O" >>,
      << "C", "C", "C", "O", "C", "C" >>,
      << "C", "C", "O", "C", "(", "C", ")", "(", "C", ")", "C", "O" >>,
      << "C", "C", "C", "C", "C", "C", "C", "C", "C" >> }

InitAttack ==
    /\ IdleMatcher
    /\ engine = IdleEngine
    /\ lastCall = NoCall
    /\ ops = 0
    /\ IdleHook
    /\ IdleSync
    /\ tInput = NoTargetInput
    /\ tTarget = NullMol
    /\ pInput = <<>>
    /\ pGraph = parseSmilesGraph(<<>>)
    /\ pDone = FALSE
    /\ aInput \in [pattern : AttackPatterns, userId : { "p1", "unknown" },
                   players : AttackLobbies, playerStates : AttackStates]
    /\ aQueue = <<>>
    /\ aDone = FALSE
    /\ kOffered = <<>>
    /\ kSt = NoSearch

\* onMatch(engine.target.pattern, engine.score)
HandleMatchMolecule ==
    /\ ~aDone
    /\ aQueue' = handleMatchMolecule(aQueue, aInput)
    /\ aDone' = TRUE
    /\ UNCHANGED <<tInput, tTarget, pInput, pGraph, pDone, aInput, kOffered, kSt>>
    /\ UNCHANGED matchVars
    /\ UNCHANGED engineVars
    /\ UNCHANGED hookVars
    /\ UNCHANGED syncVars

NextAttack == HandleMatchMolecule

SpecAttack == InitAttack /\ [][NextAttack]_vars

----------------------------------------------------------------------------
(* SpecLobby: players join and leave the lobby, one call after the other,    *)
(* each call's update having reached every client before the next call.      *)

LobbyPlayers == { "p1", "p2", "p3", "p4", "p5" }

LobbyStep(op, localPlayerId) ==
    /\ lastSync' = [op |-> op, player |-> localPlayerId, events |-> <<>>]
    /\ UNCHANGED <<garbageQueue, renderedQueue, processedGarbageIds, net, sentEvents,
                   returned, gameOvers>>
    /\ UNCHANGED matchVars
    /\ UNCHANGED engineVars
    /\ UNCHANGED hookVars
    /\ UNCHANGED pureVars

InitLobby ==
    /\ IdleMatcher
    /\ engine = IdleEngine
    /\ lastCall = NoCall
    /\ ops = 0
    /\ IdleHook
    /\ IdlePure
    /\ lobby = EMPTY_LOBBY
    /\ garbageQueue = [p \in Players |-> <<>>]
    /\ renderedQueue = [p \in Players |-> <<>>]
    /\ processedGarbageIds = [p \in Players |-> {}]
    /\ net = {}
    /\ sentEvents = <<>>
    /\ returned = <<>>
    /\ lastSync = NoSync
    /\ slotStates = NoPlayerStates
    /\ gameOvers = {}

\* lines 32-65
JoinLobby ==
    \E p \in LobbyPlayers :
        /\ lobby' = joinLobby(lobby, p)
        /\ UNCHANGED slotStates
        /\ LobbyStep("joinLobby", p)

\* lines 67-82
LeaveLobby ==
    \E p \in LobbyPlayers :
        /\ slotStates' = SetSlot(slotStates, getLocalSlot(lobby, p), "null")
        /\ lobby' = leaveLobby(lobby, p)
        /\ LobbyStep("leaveLobby", p)

NextLobby == JoinLobby \/ LeaveLobby

SpecLobby == InitLobby /\ [][NextLobby]_vars

----------------------------------------------------------------------------
(* SpecGame: three players have joined the lobby; the game is started and    *)
(* played, one call after the other, each call's update having reached every *)
(* client before the next call.                                              *)

GamePlayers == { "p1", "p2", "p3" }

MaxGameSends == 1

JoinedByThree == joinLobby(joinLobby(joinLobby(EMPTY_LOBBY, "p1"), "p2"), "p3")

GameStep(op, localPlayerId, events) ==
    /\ lastSync' = [op |-> op, player |-> localPlayerId, events |-> events]
    /\ UNCHANGED <<renderedQueue, net>>
    /\ UNCHANGED matchVars
    /\ UNCHANGED engineVars
    /\ UNCHANGED hookVars
    /\ UNCHANGED pureVars

InitGame ==
    /\ IdleMatcher
    /\ engine = IdleEngine
    /\ lastCall = NoCall
    /\ ops = 0
    /\ IdleHook
    /\ IdlePure
    /\ lobby = JoinedByThree
    /\ garbageQueue = [p \in GamePlayers |-> <<>>]
    /\ renderedQueue = [p \in GamePlayers |-> <<>>]
    /\ processedGarbageIds = [p \in GamePlayers |-> {}]
    /\ net = {}
    /\ sentEvents = <<>>
    /\ returned = <<>>
    /\ lastSync = NoSync
    /\ slotStates = NoPlayerStates
    /\ gameOvers = {}

\* lines 98-111; a game that starts has no player whose game has ended
StartGame ==
    \E p \in GamePlayers : \E g \in { startGame(lobby, p) } :
        /\ lobby' = g.lobby
        /\ garbageQueue' = [q \in GamePlayers |-> g.garbageQueue]
        /\ processedGarbageIds' = [processedGarbageIds EXCEPT ![p] = g.processedGarbageIds]
        /\ gameOvers' = IF g.lobby.phase # lobby.phase THEN {} ELSE gameOvers
        /\ UNCHANGED <<slotStates, sentEvents, returned>>
        /\ GameStep("startGame", p, <<>>)

\* Activity.tsx lines 64-81: a client's countdown has run out
SetPlaying ==
    /\ lobby.phase = "countdown"
    /\ \E p \in GamePlayers :
         /\ lobby' = setPlaying(lobby)
         /\ UNCHANGED <<garbageQueue, processedGarbageIds, sentEvents, returned,
                        slotStates, gameOvers>>
         /\ GameStep("setPlaying", p, <<>>)

\* lines 120-128, called by a running game (useSharedSync.tsx lines 239, 247,
\* 278)
BroadcastState ==
    /\ lobby.phase = "playing"
    /\ \E p \in GamePlayers \ gameOvers :
         /\ slotStates' = SetSlot(slotStates, getLocalSlot(lobby, p), "playing")
         /\ UNCHANGED <<lobby, garbageQueue, processedGarbageIds, sentEvents, returned,
                        gameOvers>>
         /\ GameStep("broadcastState", p, <<>>)

\* useSharedSync.tsx lines 191-205: gameOver calls onDeath (Activity.tsx lines
\* 155-165: reportDeath if playerCount > 1) and then broadcasts 'dead'
GameOver ==
    /\ lobby.phase = "playing"
    /\ \E p \in GamePlayers \ gameOvers :
         /\ gameOvers' = gameOvers \cup { p }
         /\ lobby' = IF Len(lobby.players) > 1 THEN reportDeath(lobby, p, slotStates)
                     ELSE lobby
         /\ slotStates' = SetSlot(slotStates, getLocalSlot(lobby, p), "dead")
         /\ UNCHANGED <<garbageQueue, processedGarbageIds, sentEvents, returned>>
         /\ GameStep("gameOver", p, <<>>)

\* lines 130-142, called for a match of a running game
GameSend ==
    /\ lobby.phase = "playing"
    /\ Len(sentEvents) < MaxGameSends
    /\ \E p \in GamePlayers \ gameOvers : \E toPlayerId \in GamePlayers \ { p } :
       \E event \in { NewEvent(p, toPlayerId, 1, 1, Len(sentEvents) + 1) } :
           /\ garbageQueue' = [q \in GamePlayers |-> Append(garbageQueue[p], event)]
           /\ sentEvents' = Append(sentEvents, event)
           /\ returned' = Append(returned, 0)
           /\ UNCHANGED <<lobby, processedGarbageIds, slotStates, gameOvers>>
           /\ GameStep("sendGarbage", p, << event >>)

\* lines 144-158, called by the tick loop of a running game
GameConsume ==
    /\ lobby.phase = "playing"
    /\ \E p \in GamePlayers \ gameOvers :
       \E myEvents \in { SelectSeq(garbageQueue[p],
                                   LAMBDA e : IsMine(p, processedGarbageIds[p], e)) } :
           /\ Len(myEvents) > 0
           /\ \E processed \in { processedGarbageIds[p] \cup IdsOf(myEvents) } :
                /\ processedGarbageIds' = [processedGarbageIds EXCEPT ![p] = processed]
                /\ garbageQueue' = [q \in GamePlayers |->
                                       WithoutProcessed(garbageQueue[p], processed)]
           /\ returned' = [n \in DOMAIN returned |->
                              returned[n] + Occurrences(myEvents, n)]
           /\ UNCHANGED <<lobby, sentEvents, slotStates, gameOvers>>
           /\ GameStep("consumeGarbage", p, myEvents)

NextGame ==
    \/ StartGame
    \/ SetPlaying
    \/ BroadcastState
    \/ GameOver
    \/ GameSend
    \/ GameConsume

SpecGame == InitGame /\ [][NextGame]_vars

----------------------------------------------------------------------------
(* SpecBand: selectTarget on the built-in pools from the sixth clear on, with *)
(* the roll on both sides of every threshold.                                *)

MaxBandClears == 12

\* floor(100 * Math.random()) at the first roll and the last, and on both sides
\* of the thresholds 40, 70 (six clears), 50, 88 (seven), 60 (eight), 70, 80,
\* 90 (nine to eleven)
BandRolls == { 0, 39, 40, 49, 50, 59, 60, 69, 70, 79, 80, 87, 88, 89, 90, 99 }

BandPrevNames == { NoName, "ethane", "2-propanol" }

InitBand ==
    /\ IdleMatcher
    /\ engine = IdleEngine
    /\ lastCall = NoCall
    /\ ops = 0
    /\ IdleHook
    /\ IdleSync
    /\ IdleAttack
    /\ pInput = <<>>
    /\ pGraph = parseSmilesGraph(<<>>)
    /\ pDone = FALSE
    /\ tInput \in [clearCount : 6..MaxBandClears, prevName : BandPrevNames,
                   customMolecules : { <<>> },
                   rnd : [roll : BandRolls, draws : TargetDraws]]
    /\ tTarget = NullMol

NextBand == SelectTarget

SpecBand == InitBand /\ [][NextBand]_vars

----------------------------------------------------------------------------
(* SpecPick: the leaves of search() within one call of findBestMatchForGraph: *)
(* complete assignments reach lines 122-129 one after another, in any order.  *)

MaxOffers == 3

\* cells with one-digit and two-digit coordinates
PickCells == { [x |-> cx, y |-> cy] : cx \in { 0, 2, 10 }, cy \in { 2, 10 } }

\* the coordinates of a complete assignment, in node order: one or two
\* distinct cells
PickAssignments ==
    { f \in UNION { [1..n -> PickCells] : n \in 1..2 } :
        \A i, j \in DOMAIN f : i # j => f[i] # f[j] }

PickCtx(coords) == [graph |-> [nodes |-> [i \in DOMAIN coords |-> "C"]]]

InitPick ==
    /\ IdleMatcher
    /\ engine = IdleEngine
    /\ lastCall = NoCall
    /\ ops = 0
    /\ IdleHook
    /\ IdleSync
    /\ tInput = NoTargetInput
    /\ tTarget = NullMol
    /\ pInput = <<>>
    /\ pGraph = parseSmilesGraph(<<>>)
    /\ pDone = FALSE
    /\ IdleAttack

\* search() reaches a complete assignment
Offer ==
    /\ Len(kOffered) < MaxOffers
    /\ \E coords \in PickAssignments :
         /\ kOffered' = Append(kOffered, coords)
         /\ kSt' = Complete(PickCtx(coords), coords, kSt)
    /\ UNCHANGED <<tInput, tTarget, pInput, pGraph, pDone, aInput, aQueue, aDone>>
    /\ UNCHANGED matchVars
    /\ UNCHANGED engineVars
    /\ UNCHANGED hookVars
    /\ UNCHANGED syncVars

NextPick == Offer

SpecPick == InitPick /\ [][NextPick]_vars

----------------------------------------------------------------------------
(* Claims about the hook (Spec) *)

\* the board a lock of this step left: the one the match was found on, or the
\* engine's when no match was returned
BoardAfterLock ==
    IF evt'.matched THEN highlightTimeoutRef'.board ELSE engine'.board

TargetEmbeddable(e, board) ==
    Embeddings(parseSmilesGraph(e.target.pattern), board, e.width, e.height) # {}

\* the board without the cells of the pending match, after gravity
MatchRemoved ==
    applyGravity(ClearCoords(highlightTimeoutRef.board, engine.height,
                             highlightTimeoutRef.match.coords, 1),
                 engine.width, engine.height)

\* C7 as stated: a lock (by tick or by hard drop) that makes the target
\* embeddable in the board raises the score by exactly 1 at that lock, and when
\* the clear completes exactly the cells of the returned match are emptied.
C7_Original ==
    /\ [][ (evt'.locked /\ TargetEmbeddable(engine', BoardAfterLock))
           => evt'.matched /\ engine'.score = engine.score + 1 ]_vars
    /\ [][ evt'.cleared => engine'.board = MatchRemoved ]_vars

\* C8 as stated: every spawn attempt of the game loop that finds the centre-top
\* cell occupied ends the game: the engine is not running and game over has
\* been reported, whether the spawn follows a lock without a match, a hard
\* drop or a match clear.
C8_Original ==
    evt.spawnFailed => (~engine.running /\ isDead /\ evt.deaths = 1)

\* C9 as stated: addGarbageRows is never invoked while the highlight timeout of
\* a match clear is pending.
C9_Original == ~evt.midClear

----------------------------------------------------------------------------
(* Claims about the garbage queue (SpecSync) *)

\* C10: within one game every garbage event is returned by consumeGarbage to
\* the player it is addressed to at most once (and to nobody else), whatever
\* the order of sendGarbage, consumeGarbage, renders and queue updates.
C10_ConsumedOnce ==
    /\ \A n \in DOMAIN returned : returned[n] <= 1
    /\ lastSync.op = "consumeGarbage" =>
         \A i \in DOMAIN lastSync.events : lastSync.events[i].toPlayerId = lastSync.player

\* consumeGarbage has just returned nothing although the queue its caller
\* closed over still holds an event addressed to that caller, returned before
C10_Witness ==
    /\ lastSync.op = "consumeGarbage"
    /\ lastSync.events = <<>>
    /\ \E i \in DOMAIN renderedQueue[lastSync.player] :
         /\ renderedQueue[lastSync.player][i].toPlayerId = lastSync.player
         /\ returned[renderedQueue[lastSync.player][i].serial] = 1

----------------------------------------------------------------------------
(* Claims C11, C12 (Spec) *)

\* C11: at any time at most one tick interval and at most one highlight
\* timeout are live, and they are the ones tickId and highlightTimeoutRef hold;
\* after a handler in which gameOver, start or prepareForStart ran, no interval
\* and no timeout created before that handler is live, so no callback scheduled
\* before the reset can act on the board afterwards.
C11_TimerCancellation ==
    /\ timers.intervals = (IF tickId.on THEN 1 ELSE 0)
    /\ timers.timeouts = (IF highlightTimeoutRef.on THEN 1 ELSE 0)
    /\ (evt.reset \/ evt.deaths > 0) =>
         /\ tickId.on => evt.madeInterval
         /\ highlightTimeoutRef.on => evt.madeTimeout

\* gameOver has run in an interval callback while a highlight timeout was
\* pending (garbage overflow mid-clear), and no timer is left
C11_Witness ==
    /\ evt.deaths = 1
    /\ evt.midClear
    /\ timers = NoTimers

\* C12 as stated: the active piece is absent whenever a match-clear highlight
\* is pending and whenever the game is over, whether it ended by spawn blockage
\* or by garbage overflow.
C12_Original ==
    /\ highlightTimeoutRef.on => engine.active = NullActive
    /\ isDead => engine.active = NullActive

----------------------------------------------------------------------------
(* Claims about selectTarget (SpecTarget) *)

InPool(m, pool) == \E i \in DOMAIN pool : pool[i] = m

\* C13: selectTarget always returns a molecule; with a non-empty custom pool a
\* member of that pool; with the built-in pools a tier-1 molecule when
\* clearCount < 2 and a tier-1 or tier-2 molecule when 2 <= clearCount < 6,
\* whatever Math.random() returns.
C13_TargetTiers ==
    [][ /\ tTarget' # NullMol
        /\ Len(tInput.customMolecules) > 0 => InPool(tTarget', tInput.customMolecules)
        /\ (Len(tInput.customMolecules) = 0 /\ tInput.clearCount < 2)
             => InPool(tTarget', TIER_ONE_MOLS)
        /\ (Len(tInput.customMolecules) = 0 /\ tInput.clearCount >= 2
              /\ tInput.clearCount < 6)
             => (InPool(tTarget', TIER_ONE_MOLS) \/ InPool(tTarget', TIER_TWO_MOLS))
      ]_vars

\* selectTarget has returned a tier-2 molecule for a clearCount in 2..5 after
\* the first draw hit the previous target
C13_Witness ==
    /\ tTarget # NullMol
    /\ Len(tInput.customMolecules) = 0
    /\ tInput.clearCount \in 2..5
    /\ InPool(tTarget, TIER_TWO_MOLS)
    /\ tInput.prevName = "2-propanol"
    /\ Drawn(TIER_TWO_MOLS, tInput.rnd.draws, 1).name = tInput.prevName

----------------------------------------------------------------------------
(* Claims about parseSmilesGraph (SpecParse) *)

\* the position of the "(" that the ")" before position k + 1 closes, `depth`
\* closed branches being open on the way back; 0 when there is none
RECURSIVE ScanOpen(_, _, _)
ScanOpen(p, k, depth) ==
    IF k = 0 THEN 0
    ELSE IF p[k] = ")" THEN ScanOpen(p, k - 1, depth + 1)
    ELSE IF p[k] = "(" THEN (IF depth = 0 THEN k ELSE ScanOpen(p, k - 1, depth - 1))
    ELSE ScanOpen(p, k - 1, depth)

MatchOpen(p, i) == ScanOpen(p, i - 1, 0)

\* the number of atoms among the first k characters: the node (1-based) of an
\* atom at position k
AtomsUpTo(p, k) == Cardinality({ i \in 1..k : p[i] \in { "C", "O" } })

\* the node of the atom that precedes position k + 1, closed branches skipped;
\* 0 when there is none
RECURSIVE AtomBefore(_, _)
AtomBefore(p, k) ==
    IF k = 0 THEN 0
    ELSE IF p[k] \in { "C", "O" } THEN AtomsUpTo(p, k)
    ELSE IF p[k] = ")" /\ MatchOpen(p, k) # 0 THEN AtomBefore(p, MatchOpen(p, k) - 1)
    ELSE AtomBefore(p, k - 1)

\* the position of the atom that follows position i directly (ignored
\* characters apart); 0 when there is none
RECURSIVE NextAtom(_, _)
NextAtom(p, i) ==
    IF i >= Len(p) THEN 0
    ELSE IF p[i + 1] \in { "C", "O" } THEN i + 1
    ELSE IF p[i + 1] \in { "(", ")" } THEN 0
    ELSE NextAtom(p, i + 1)

EarlierNeighbours(graph, node) ==
    { graph.adjacency[node][k] : k \in DOMAIN graph.adjacency[node] } \cap 1..(node - 1)

BranchExample == << "C", "C", "(", "O", ")", "C" >>

\* C14: the atom that follows a ")" is bonded to the atom that preceded the
\* matching "(" and to no atom inside the branch; CC(O)C gives the nodes
\* C, C, O, C with the edges 0-1, 1-2, 1-3 only.
C14_BranchBond ==
    pDone =>
      /\ \A i \in DOMAIN pInput :
           (/\ pInput[i] = ")"
            /\ MatchOpen(pInput, i) # 0
            /\ AtomBefore(pInput, MatchOpen(pInput, i) - 1) # 0
            /\ NextAtom(pInput, i) # 0)
           => EarlierNeighbours(pGraph, AtomsUpTo(pInput, NextAtom(pInput, i)))
                = { AtomBefore(pInput, MatchOpen(pInput, i) - 1) }
      /\ pInput = BranchExample =>
           /\ pGraph.nodes = << [element |-> "C"], [element |-> "C"],
                                [element |-> "O"], [element |-> "C"] >>
           /\ pGraph.adjacency = << << 2 >>, << 1, 3, 4 >>, << 2 >>, << 2 >> >>

\* CC(O)C has been parsed
C14_Witness == pDone /\ pInput = BranchExample

\* p without the characters other than C, O and the parentheses
RECURSIVE StripFrom(_, _)
StripFrom(p, i) ==
    IF i > Len(p) THEN <<>>
    ELSE IF p[i] \in { "C", "O", "(", ")" } THEN << p[i] >> \o StripFrom(p, i + 1)
    ELSE StripFrom(p, i + 1)

Without(p, k) == SubSeq(p, 1, k - 1) \o SubSeq(p, k + 1, Len(p))

\* C15: the graph of p is the graph of p without the characters other than C,
\* O and the parentheses; and a "(" before any atom, and a ")" met with an
\* empty branch stack, can be removed without changing the graph.
C15_Leniency ==
    pDone =>
      /\ pGraph = parseSmilesGraph(StripFrom(pInput, 1))
      /\ \A k \in DOMAIN pInput :
           (\/ pInput[k] = "(" /\ AtomsUpTo(pInput, k) = 0
            \/ /\ pInput[k] = ")"
               /\ ParseFrom(SubSeq(pInput, 1, k - 1), 1, ParseInit).branchStack = <<>>)
           => /\ pGraph = parseSmilesGraph(Without(pInput, k))
              /\ ParseFrom(SubSeq(pInput, 1, k), 1, ParseInit)
                   = ParseFrom(SubSeq(pInput, 1, k - 1), 1, ParseInit)

\* a pattern with an ignored character, a "(" before any atom and a ")" met
\* with an empty stack has been parsed
C15_Witness ==
    /\ pDone
    /\ pInput = << "(", "C", "x", ")", "O" >>

----------------------------------------------------------------------------
(* Claims C16 - C20 about the engine (SpecEngine) *)

GapsOf(row, w) == { x \in 0..(w - 1) : row[x] = Empty }

\* C16: a successful addGarbageRows(count) with c = min(count, 6) on a board
\* higher than c moves every row y + c to row y unchanged, makes each of the
\* bottom c rows Garbage but for exactly one Empty gap, and moves the active
\* piece, if any, up by c rows, not above row 0.
C16_GarbageEffect ==
    [][ (/\ CallOf("addGarbageRows")
         /\ lastCall'.ok
         /\ MinOf(lastCall'.arg, 6) < engine.height)
        => LET c == MinOf(lastCall'.arg, 6)
               h == engine.height
           IN  /\ \A y \in 0..(h - c - 1) : engine'.board[y] = engine.board[y + c]
               /\ \A y \in (h - c)..(h - 1) :
                    /\ Cardinality(GapsOf(engine'.board[y], engine.width)) = 1
                    /\ \A x \in 0..(engine.width - 1) :
                         engine'.board[y][x] \in { Empty, Garbage }
               /\ engine.active = NullActive => engine'.active = NullActive
               /\ engine.active # NullActive =>
                    /\ engine'.active.x = engine.active.x
                    /\ engine'.active.atom = engine.active.atom
                    /\ engine'.active.y = (IF engine.active.y >= c
                                           THEN engine.active.y - c ELSE 0)
      ]_vars

\* addGarbageRows(7) has lifted an atom of an 8-row board to row 0 and left the
\* active piece at row 0
C16_Witness ==
    /\ lastCall.op = "addGarbageRows"
    /\ lastCall.ok
    /\ lastCall.arg = 7
    /\ engine.height = 8
    /\ engine.board[0][0] \in Atom
    /\ engine.active # NullActive
    /\ engine.active.y = 0

CoordsOf(match) == { << match.coords[i].x, match.coords[i].y >> : i \in DOMAIN match.coords }

\* the non-empty cells of column x from row y down that are not at `removed`
RECURSIVE KeptCells(_, _, _, _, _)
KeptCells(board, h, x, y, removed) ==
    IF y >= h THEN <<>>
    ELSE IF board[y][x] # Empty /\ << x, y >> \notin removed
    THEN << board[y][x] >> \o KeptCells(board, h, x, y + 1, removed)
    ELSE KeptCells(board, h, x, y + 1, removed)

\* C17: after clearMatch(candidate) every column holds, bottom-aligned and in
\* the same top-to-bottom order, exactly the non-empty cells it held before
\* but for those at the candidate's coordinates.
C17_ClearColumnLocal ==
    [][ CallOf("clearMatch") =>
          /\ GravityOK(engine')
          /\ \A x \in 0..(engine.width - 1) :
               KeptCells(engine'.board, engine.height, x, 0, {})
                 = KeptCells(engine.board, engine.height, x, 0, CoordsOf(lastCall.match))
      ]_vars

\* clearMatch has removed a match from between two different cells of a
\* column: the upper one fell onto the lower one
C17_Witness ==
    /\ lastCall.op = "clearMatch"
    /\ lastCall.arg > 0
    /\ engine.height = 8
    /\ engine.board[7][0] = Carbon
    /\ engine.board[6][0] = Oxygen

\* the lowest row the active piece reaches going straight down through
\* empty cells
LowestRow(e) ==
    CHOOSE y \in e.active.y..(e.height - 1) :
        /\ \A k \in (e.active.y + 1)..y : e.board[k][e.active.x] = Empty
        /\ y = e.height - 1 \/ e.board[y + 1][e.active.x] # Empty

\* tick after tick with no call in between, until one of them locks the
\* piece; `fuel` ticks at most
RECURSIVE DrainTicks(_, _)
DrainTicks(e, fuel) ==
    IF fuel = 0 \/ ~e.running
    THEN [locked |-> FALSE, board |-> e.board, match |-> NullMatch]
    ELSE CHOOSE out \in {
             IF /\ res.e.active # NullActive
                /\ res.e.board = e.board
                /\ res.e.active.y > e.active.y
             THEN DrainTicks(res.e, fuel - 1)
             ELSE [locked |-> TRUE, board |-> res.e.board, match |-> res.match]
             : res \in { tick(e, 0) } } : TRUE

\* what hardDrop did to `e`, against the ticks drained from `e` with the soft
\* drop off and with it on
SameAsDrained(e) ==
    /\ engine'.board = [e.board EXCEPT ![LowestRow(e)][e.active.x] = e.active.atom]
    /\ \A soft \in BOOLEAN :
         \E d \in { DrainTicks([e EXCEPT !.softDrop = soft], e.height + 1) } :
            /\ d.locked
            /\ d.board = engine'.board
            /\ lastCall'.ok = ~IsNull(d.match)
            /\ lastCall'.ok => lastCall'.match = d.match

\* C18: from a running state with an active piece, hardDrop locks the piece in
\* the lowest cell it reaches going straight down through empty cells, and
\* leaves the board and returns the match that tick after tick, with no call
\* in between, leave and return when the piece locks.
C18_DrainEquivalent ==
    [][ CallOf("hardDrop") /\ engine.active # NullActive /\ engine.running
          => SameAsDrained(engine) ]_vars

\* C18 as stated, from any state with an active piece
C18_Original ==
    [][ CallOf("hardDrop") /\ engine.active # NullActive
          => SameAsDrained(engine) ]_vars

\* a running engine's hardDrop has completed a match
C18_Witness ==
    /\ lastCall.op = "hardDrop"
    /\ lastCall.ok
    /\ engine.running

\* the cell beside the active piece, dx columns away, is on the board and Empty
DestinationFree(e, dx) ==
    /\ e.active.x + dx \in 0..(e.width - 1)
    /\ e.board[e.active.y][e.active.x + dx] = Empty

\* C19: moveHorizontal(dx), dx being -1 or +1, changes the piece's x by dx and
\* nothing else when the engine is running, a piece is active and the cell
\* (x + dx, y) is in bounds and Empty; in every other case it leaves the whole
\* engine state unchanged and returns failure.
C19_MoveHorizontalFrame ==
    [][ CallOf("moveHorizontal") =>
          \E dx \in { lastCall'.arg } :
             /\ dx \in { -1, 1 }
             /\ IF engine.running /\ engine.active # NullActive /\ DestinationFree(engine, dx)
                THEN /\ lastCall'.ok
                     /\ engine' = [engine EXCEPT !.active.x = @ + dx]
                ELSE /\ ~lastCall'.ok
                     /\ engine' = engine
      ]_vars

\* a running engine has refused a move of its piece into an occupied cell of
\* the board
C19_Witness ==
    /\ lastCall.op = "moveHorizontal"
    /\ ~lastCall.ok
    /\ engine.running
    /\ engine.active # NullActive
    /\ engine.active.x + lastCall.arg \in 0..(engine.width - 1)
    /\ engine.board[engine.active.y][engine.active.x + lastCall.arg] # Empty

\* C20: reset() yields a fresh game state (every cell of the board Empty, no
\* active piece, score 0, running and soft drop false, the current tick
\* duration equal to the base tick, pending garbage 0, a target newly selected
\* from the custom pool) and leaves width, height, base tick and custom pool
\* as they were.
C20_ResetFresh ==
    [][ CallOf("reset") =>
          /\ DOMAIN engine'.board = 0..(engine.height - 1)
          /\ \A y \in 0..(engine.height - 1) :
               /\ DOMAIN engine'.board[y] = 0..(engine.width - 1)
               /\ \A x \in 0..(engine.width - 1) : engine'.board[y][x] = Empty
          /\ engine'.active = NullActive
          /\ engine'.score = 0
          /\ ~engine'.running
          /\ ~engine'.softDrop
          /\ engine'.currentTickMs = engine.tickMs
          /\ engine'.pendingGarbage = 0
          /\ \E i \in DOMAIN engine.customMolecules :
                engine'.target = engine.customMolecules[i]
          /\ engine'.width = engine.width
          /\ engine'.height = engine.height
          /\ engine'.tickMs = engine.tickMs
          /\ engine'.customMolecules = engine.customMolecules
      ]_vars

\* reset has run as the third call on the engine, after two others
C20_Witness ==
    /\ lastCall.op = "reset"
    /\ ops = 3
    /\ engine.currentTickMs = engine.tickMs
    /\ engine.score = 0

----------------------------------------------------------------------------
(* Claims C21, C27, C28 about the engine (SpecEngine) *)

\* the current tick duration after one speed boost
BoostedOnce(e) ==
    LET next == RatMul(e.currentTickMs, Rat(9, 10))
    IN  IF RatLeq(next, Rat(MIN_TICK_MS, 1)) THEN Rat(MIN_TICK_MS, 1) ELSE next

\* C21: pickNewTarget changes neither the board nor the active piece; the new
\* target is selectTarget(score, current target name, custom pool), the result
\* is what the matcher finds for the new target on the unchanged board, and
\* the score grows by exactly 1, with one speed boost, if and only if a match
\* is returned; without a match score and speed are unchanged.
C21_PickNewTargetFrame ==
    [][ CallOf("pickNewTarget") =>
          /\ engine'.board = engine.board
          /\ engine'.active = engine.active
          /\ engine'.target \in { selectTarget(engine.score, engine.target.name,
                                               engine.customMolecules, rnd) :
                                    rnd \in Rnds(engine.customMolecules) }
          /\ \E found \in { findBestMatchForGraph(parseSmilesGraph(engine'.target.pattern),
                                                  engine.board, engine.width,
                                                  engine.height) } :
               /\ lastCall'.ok = ~IsNull(found)
               /\ lastCall'.ok => lastCall'.match = found
          /\ IF lastCall'.ok
             THEN /\ engine'.score = engine.score + 1
                  /\ engine'.currentTickMs = BoostedOnce(engine)
             ELSE /\ engine'.score = engine.score
                  /\ engine'.currentTickMs = engine.currentTickMs
          /\ engine' = [engine EXCEPT !.target = engine'.target,
                                      !.score = engine'.score,
                                      !.currentTickMs = engine'.currentTickMs]
      ]_vars

\* pickNewTarget has found the new target on the board and scored it
C21_Witness ==
    /\ lastCall.op = "pickNewTarget"
    /\ lastCall.ok
    /\ engine.score >= 1
    /\ engine.currentTickMs # engine.tickMs

\* the rows the active piece can go straight down through empty cells
RowsBelow(e) == LowestRow(e) - e.active.y

StepsOf(e) == IF e.softDrop THEN 2 ELSE 1

\* C27: with the engine running and a piece active, one tick() moves the
\* piece down by 1 row (2 with the soft drop), never into or through a
\* non-empty cell; the piece is locked in the first step that cannot move it,
\* in the cell it has reached, and no step follows a lock in that call: the
\* piece spawned after the lock is still in row 0 of the spawn column.
C27_TickSteps ==
    [][ CallOf("tick") /\ engine.running /\ engine.active # NullActive =>
          IF RowsBelow(engine) >= StepsOf(engine)
          THEN engine' = [engine EXCEPT !.active.y = @ + StepsOf(engine)]
          ELSE /\ engine'.board =
                    [engine.board EXCEPT ![LowestRow(engine)][engine.active.x] =
                                             engine.active.atom]
               /\ \/ engine'.active = NullActive
                  \/ /\ engine'.active.y = 0
                     /\ engine'.active.x = engine.width \div 2
                     /\ engine'.board[0][engine'.active.x] = Empty
      ]_vars

\* a tick with the soft drop on has locked a piece outside row 0 in its first
\* step (a match would have left no piece, a one-step move no locked cell
\* under a piece in row 0 of an otherwise empty column) and spawned the next
C27_Witness ==
    /\ lastCall.op = "tick"
    /\ engine.running
    /\ engine.softDrop
    /\ engine.active # NullActive
    /\ engine.active.y = 0
    /\ engine.height = 3
    /\ engine.board[1][engine.active.x] = Empty
    /\ engine.board[2][engine.active.x] # Empty
    /\ ops = 3
    /\ lastCall.match = NullMatch

\* the board once the active piece is locked in the lowest row it reaches
BoardWithPieceDown(e) ==
    [e.board EXCEPT ![LowestRow(e)][e.active.x] = e.active.atom]

\* this tick locks the piece, the target is not on the board with the piece
\* locked, and the spawn cell is occupied
LockThenBlocked(e) ==
    /\ e.running
    /\ e.active # NullActive
    /\ RowsBelow(e) < StepsOf(e)
    /\ \E b \in { BoardWithPieceDown(e) } :
          /\ IsNull(findBestMatchForGraph(parseSmilesGraph(e.target.pattern), b,
                                          e.width, e.height))
          /\ b[0][e.width \div 2] # Empty

\* C28: tick() on an engine that is not running changes nothing and returns
\* no match and gameOver = false; no call returns both a match and
\* gameOver = true; gameOver = true is returned exactly when a lock without
\* match is followed by a failed spawn, and then running is false.
C28_TickResult ==
    [][ CallOf("tick") =>
          /\ ~engine.running =>
                engine' = engine /\ lastCall'.arg = 0 /\ ~lastCall'.ok
          /\ ~(lastCall'.arg = 1 /\ lastCall'.ok)
          /\ lastCall'.ok <=> LockThenBlocked(engine)
          /\ lastCall'.ok => ~engine'.running
      ]_vars

\* a tick has locked a piece, found no match and no room to spawn
C28_Witness ==
    /\ lastCall.op = "tick"
    /\ lastCall.ok
    /\ lastCall.arg = 0
    /\ ~engine.running
    /\ engine.active = NullActive

----------------------------------------------------------------------------
(* Claims C22, C25, C26, C29 about the hook (Spec) *)

\* C22: the garbage events pending at an iteration of the tick loop are summed
\* and applied by a single addGarbageRows call in that iteration, not by one
\* call per event.
C22_Original == evt.garbageCalls <= 1

\* C25: from the detection of a match (highlight scheduled) to the firing of
\* the highlight timer no operation changes a cell of the board: while the
\* timer is pending the board is the board the match was found on.
C25_Original == highlightTimeoutRef.on => engine.board = highlightTimeoutRef.board

\* move-left, move-right, soft-drop-start and hard-drop
PlayKeys == { "ArrowLeft", "ArrowRight", "ArrowDown", "Space" }

\* C26: while a match-clear highlight is pending, a move-left, move-right,
\* soft-drop-start or hard-drop event leaves the board, the active piece, the
\* score and the soft-drop flag unchanged; the handler changes nothing at all,
\* so nothing is kept of the event to replay once the engine runs again.
C26_InputDropped ==
    highlightTimeoutRef.on =>
        \A key \in PlayKeys : \A r \in Rolls :
            onKeyDown(Cur, key, engine.target, engine.target, r) = Cur

\* a highlight is pending while the engine runs and the help is closed: a key
\* gets as far as the test of the active piece
C26_Witness ==
    /\ highlightTimeoutRef.on
    /\ engine.running
    /\ ~showHelp
    /\ engine.score >= 1

\* C29: whenever the engine is running with an active piece, the period of
\* the installed tick interval is the engine's currentTickMs, also after the
\* speed boost of a match found by tick, by a hard drop or by pickNewTarget.
C29_Original ==
    (engine.running /\ engine.active # NullActive /\ tickId.on)
        => tickId.period = engine.currentTickMs

----------------------------------------------------------------------------
(* Claim C23 about handleMatchMolecule (SpecAttack) *)

\* the number of atoms written in a pattern
AtomCount(pattern) == Cardinality({ i \in DOMAIN pattern : pattern[i] \in { "C", "O" } })

\* the opponents of the local player that are playing
PlayingOpponents(in) ==
    { in.players[k].playerId : k \in { j \in DOMAIN in.players :
        /\ in.players[j].playerId # in.userId
        /\ in.playerStates[in.players[j].slot + 1].status = "playing" } }

\* C23: a match in a game of more than one player emits, for every opponent
\* whose status is 'playing' and never for the local player, one garbage
\* event from the local player whose row count is max(1, floor(n / 3)), n
\* being the number of atoms of the matched pattern, and no other event; in
\* a solo game no event is emitted.
C23_GarbageAttack ==
    aDone =>
      IF Len(aInput.players) <= 1 THEN aQueue = <<>>
      ELSE /\ \A q \in PlayingOpponents(aInput) :
                 Cardinality({ i \in DOMAIN aQueue : aQueue[i].toPlayerId = q }) = 1
           /\ \A i \in DOMAIN aQueue :
                 /\ aQueue[i].toPlayerId \in PlayingOpponents(aInput)
                 /\ aQueue[i].toPlayerId # aInput.userId
                 /\ aQueue[i].fromPlayerId = aInput.userId
                 /\ aQueue[i].rows = IF AtomCount(aInput.pattern) < 6 THEN 1
                                     ELSE AtomCount(aInput.pattern) \div 3

\* a match of an 8-atom pattern in a lobby of three, one opponent playing and
\* one dead: one event of 2 rows went out
C23_Witness ==
    /\ aDone
    /\ Len(aInput.players) = 3
    /\ AtomCount(aInput.pattern) = 8
    /\ Len(aQueue) = 1
    /\ aQueue[1].rows = 2
    /\ \E k \in DOMAIN aInput.players :
          /\ aInput.players[k].playerId # aInput.userId
          /\ aInput.playerStates[aInput.players[k].slot + 1].status = "dead"

----------------------------------------------------------------------------
(* Claim C24 about selectTarget (SpecTarget) *)

\* C24: with a custom pool of more than one entry, whatever the random draws,
\* the target selected either differs from previousName or is the pool's
\* first entry (the fallback when every retry collides).
C24_Original ==
    [][ Len(tInput.customMolecules) > 1 =>
          \/ tTarget'.name # tInput.prevName
          \/ tTarget' = tInput.customMolecules[1] ]_vars

----------------------------------------------------------------------------
(* Claim C30 about parseSmilesGraph (SpecParse) *)

\* the atoms written in a pattern, in the order they are met
AtomsIn(pattern) ==
    LET IsAtomChar(ch) == ch \in { "C", "O" }
        atoms == SelectSeq(pattern, IsAtomChar)
    IN  [i \in DOMAIN atoms |-> [element |-> atoms[i]]]

NeighboursOf(graph, i) == { graph.adjacency[i][k] : k \in DOMAIN graph.adjacency[i] }

\* the nodes reached from `seen` along the adjacency
RECURSIVE ReachedFrom(_, _)
ReachedFrom(graph, seen) ==
    LET more == seen \cup UNION { NeighboursOf(graph, i) : i \in seen }
    IN  IF more = seen THEN seen ELSE ReachedFrom(graph, more)

RECURSIVE DegreeSum(_, _)
DegreeSum(graph, i) ==
    IF i > Len(graph.adjacency) THEN 0
    ELSE Len(graph.adjacency[i]) + DegreeSum(graph, i + 1)

TreeProbeBoards ==
    { EmptyBoardOf(2, 2), [y \in 0..1 |-> [x \in 0..1 |-> Carbon]] }

\* C30: the graph of a pattern with n >= 1 atoms has the n atoms as nodes in
\* the order they are met, a symmetric adjacency without self-loops or
\* duplicate neighbours, exactly n - 1 edges, and is connected: a tree.  A
\* pattern without atoms gives the empty graph, for which
\* findBestMatchForGraph returns no match.
C30_ParseTree ==
    pDone =>
      /\ pGraph.nodes = AtomsIn(pInput)
      /\ DOMAIN pGraph.adjacency = DOMAIN pGraph.nodes
      /\ \A i \in DOMAIN pGraph.adjacency :
           /\ NeighboursOf(pGraph, i) \subseteq DOMAIN pGraph.nodes
           /\ i \notin NeighboursOf(pGraph, i)
           /\ Cardinality(NeighboursOf(pGraph, i)) = Len(pGraph.adjacency[i])
           /\ \A j \in NeighboursOf(pGraph, i) : i \in NeighboursOf(pGraph, j)
      /\ Len(pGraph.nodes) >= 1 =>
           /\ DegreeSum(pGraph, 1) = 2 * (Len(pGraph.nodes) - 1)
           /\ ReachedFrom(pGraph, { 1 }) = DOMAIN pGraph.nodes
      /\ Len(pGraph.nodes) = 0 =>
           \A b \in TreeProbeBoards : IsNull(findBestMatchForGraph(pGraph, b, 2, 2))

\* a pattern of three atoms with a branch and an unmatched ')' has been
\* parsed
C30_Witness ==
    /\ pDone
    /\ pInput = << "C", "(", "O", ")", "C", ")" >>
    /\ Len(pGraph.nodes) = 3

----------------------------------------------------------------------------
(* Claims C31, C32 about the engine (SpecEngine) *)

\* C31: on a board of height > 6 the active piece, when present, lies within
\* the board and on an Empty cell, so that locking it overwrites no Carbon,
\* Oxygen or Garbage cell.
C31_Original ==
    (engine.height > 6 /\ engine.active # NullActive) =>
        /\ engine.active.x \in 0..(engine.width - 1)
        /\ engine.active.y \in 0..(engine.height - 1)
        /\ engine.board[engine.active.y][engine.active.x] = Empty

\* no column of the board has an Empty cell below a non-empty one
Compact(board, w, h) ==
    \A x \in 0..(w - 1) : \A y \in 0..(h - 2) :
        board[y][x] # Empty => board[y + 1][x] # Empty

\* C32: in a game without addGarbageRows every reachable board has no Empty
\* cell below a non-empty cell in any column: the board of a new or reset
\* game has none, and no call of spawn, moveHorizontal, tick, hardDrop,
\* clearMatch, pickNewTarget, reset or boostSpeed makes one.
C32_GravityKept ==
    /\ ops = 0 => Compact(engine.board, engine.width, engine.height)
    /\ [][ (/\ Compact(engine.board, engine.width, engine.height)
            /\ ~CallOf("addGarbageRows"))
           => Compact(engine'.board, engine.width, engine.height) ]_vars

\* a piece moved to the left column of the 2 x 3 board has been hard-dropped
\* there, on a board without garbage
C32_Witness ==
    /\ lastCall.op = "hardDrop"
    /\ engine.width = 2
    /\ engine.board[2][0] \in Atom
    /\ engine.board[2][1] \in Atom
    /\ \A y \in 0..2 : \A x \in 0..1 : engine.board[y][x] # Garbage
    /\ Compact(engine.board, 2, 3)

----------------------------------------------------------------------------
(* SpecFall: a started game of useGameEngine in which the tick interval and  *)
(* the highlight timeout keep firing, the player only moves the piece left   *)
(* and right, and garbage keeps arriving without end.                        *)

FallOpts == [width |-> 2, height |-> 3, tickMs |-> 280, customMolecules |-> HookPool]

MaxPending == 2

InitFall ==
    /\ IdleMatcher
    /\ IdleSync
    /\ IdlePure
    /\ lastCall = NoCall
    /\ ops = 0
    /\ arrived = 0
    /\ \E rnd \in Rnds(HookPool) :
       \E new \in { NewGameEngine(FallOpts.width, FallOpts.height, FallOpts.tickMs,
                                  FallOpts.customMolecules, rnd) } :
       \E next \in StartTargets(new) : \E r \in Rolls :
       \E s \in { start(Unmounted(new), FALSE, ResetTargetFor(new, next), next, r) } :
           Holds(s)

\* ArrowLeft and ArrowRight
MoveKey ==
    /\ InPlay
    /\ \E key \in { "ArrowLeft", "ArrowRight" } :
         Commit(onKeyDown(Cur, key, engine.target, engine.target, 0))

\* an update of the shared garbage queue brings events for this player,
\* again and again
GarbageKeepsArriving ==
    \E events \in ArrivingEvents :
        /\ Len(inbox) + Len(events) <= MaxPending
        /\ inbox' = inbox \o events
        /\ evt' = NoEvt
        /\ UNCHANGED <<engine, lastCall, ops, tickId, highlightTimeoutRef, overlay,
                       hasStarted, showHelp, preHelpRunningRef, isDead, timers, arrived>>
        /\ UNCHANGED matchVars
        /\ UNCHANGED syncVars
        /\ UNCHANGED pureVars

NextFall ==
    \/ TickFires
    \/ HighlightFires
    \/ MoveKey
    \/ GarbageKeepsArriving

\* ENABLED <<TickFires>>_vars as a state predicate: the interval is installed
\* and its callback changes the state
TickCanStep ==
    /\ tickId.on
    /\ InPlay
    /\ \E gaps \in GapsFor(engine, inbox) : \E r \in Rolls :
         ~Holds(TickCallback(Cur, gaps, r))

\* ENABLED <<HighlightFires>>_vars as a state predicate
HighlightCanStep ==
    /\ highlightTimeoutRef.on
    /\ \E next \in NextTargets(engine) : \E r \in Rolls :
         ~Holds(HighlightCallback(Cur, next, r))

\* weak fairness of the interval callback, which setInterval runs again and
\* again until clearInterval: WF_vars(TickFires)
FairTick == ([]<>(~TickCanStep)) \/ ([]<><<TickFires>>_vars)

\* weak fairness of the timeout callback, which setTimeout runs once it is
\* pending: WF_vars(HighlightFires)
FairHighlight == ([]<>(~HighlightCanStep)) \/ ([]<><<HighlightFires>>_vars)

SpecFall ==
    /\ InitFall
    /\ [][NextFall]_vars
    /\ FairTick
    /\ FairHighlight

----------------------------------------------------------------------------
(* Claims C33 (Spec) and C34 (SpecFall) about the hook *)

\* the Carbon and Oxygen cells of the engine's board
AtomsOnBoard(e) ==
    Cardinality({ c \in (0..(e.width - 1)) \X (0..(e.height - 1)) :
                    e.board[c[2]][c[1]] \in Atom })

\* C33: every clear of a chain of automatic clears removes at least one atom
\* from the board, so that the chain is no longer than the number of Carbon
\* and Oxygen cells on the board when it started.
C33_Original ==
    [][ evt'.cleared => AtomsOnBoard(engine') < AtomsOnBoard(engine) ]_vars

\* C34: while the engine stays running and the tick interval keeps firing,
\* an active piece is eventually locked or the game ends, whatever moves to
\* the left and right and whatever garbage come in between.
C34_FallProgress ==
    (engine.running /\ engine.active # NullActive /\ InPlay)
        ~> (evt.locked \/ isDead)

\* a piece lifted back to row 0 by garbage after it had fallen has then been
\* locked by a tick
C34_Witness ==
    /\ evt.locked
    /\ evt.garbageCalls >= 1
    /\ ~isDead
    /\ \E x \in 0..(engine.width - 1) : engine.board[engine.height - 1][x] = Garbage

----------------------------------------------------------------------------
(* Claim C35 about pickBetter (SpecPick) *)

CellsOf(m) == { m.coords[i] : i \in DOMAIN m.coords }

\* the closure's state after the assignments of `offers` have been reached in
\* that order
RECURSIVE FoldPick(_)
FoldPick(offers) ==
    IF offers = <<>> THEN NoSearch
    ELSE Complete(PickCtx(offers[Len(offers)]), offers[Len(offers)],
                  FoldPick(SubSeq(offers, 1, Len(offers) - 1)))

Orders(n) == { f \in [1..n -> 1..n] : \A i, j \in 1..n : i # j => f[i] # f[j] }

Reordered(offers, f) == [i \in DOMAIN offers |-> offers[f[i]]]

\* C35: pickBetter(a, b) and pickBetter(b, a) have the same signature; folding
\* pickBetter is associative up to the signature; candidates of the same
\* signature cover the same cells; so the cells of the best candidate are the
\* same in whatever order the complete assignments are reached.
C35_OrderIndependent ==
    LET cands == { createCandidate(kOffered[i]) : i \in DOMAIN kOffered }
    IN  /\ \A a, b \in cands :
              /\ pickBetter(a, b).signature = pickBetter(b, a).signature
              /\ a.signature = b.signature => CellsOf(a) = CellsOf(b)
        /\ \A a, b, c \in cands :
              pickBetter(pickBetter(a, b), c).signature
                  = pickBetter(a, pickBetter(b, c)).signature
        /\ \A f \in Orders(Len(kOffered)) :
              CellsOf(FoldPick(Reordered(kOffered, f)).best) = CellsOf(kSt.best)

\* three assignments of equal maxY and minX were reached, two of them covering
\* the same cells in different node order; the signature decided, and the
\* best candidate was reached last
C35_Witness ==
    /\ Len(kOffered) = 3
    /\ \A i \in 1..3 : /\ createCandidate(kOffered[i]).maxY = 10
                       /\ createCandidate(kOffered[i]).minX = 0
    /\ kOffered[1] # kOffered[2]
    /\ CellsOf(createCandidate(kOffered[1])) = CellsOf(createCandidate(kOffered[2]))
    /\ kSt.best.coords = kOffered[3]
    /\ Cardinality(kSt.seen) = 2

----------------------------------------------------------------------------
(* Claim C36 about selectTarget (SpecBand) *)

\* min(cap, base + step * (c - 6)), in hundredths
BandWidth(cap, base, step, c) ==
    IF base + step * (c - 6) < cap THEN base + step * (c - 6) ELSE cap

TierOf(m) ==
    IF InPool(m, TIER_ONE_MOLS) THEN 1
    ELSE IF InPool(m, TIER_TWO_MOLS) THEN 2
    ELSE IF InPool(m, TIER_THREE_MOLS) THEN 3
    ELSE 0

\* C36: from the sixth clear on, on the built-in pools, the roll (in
\* hundredths) picks tier 3 below min(90, 40 + 10(c - 6)), tier 2 below that
\* plus min(70, 30 + 8(c - 6)), tier 1 otherwise; at six and seven clears each
\* tier is returned for some roll; from eight clears on tier 1 never is.
C36_TierBands ==
    /\ tTarget # NullMol =>
         LET c     == tInput.clearCount
             roll  == tInput.rnd.roll
             three == BandWidth(90, 40, 10, c)
             two   == BandWidth(70, 30, 8, c)
         IN  /\ roll < three => TierOf(tTarget) = 3
             /\ (three <= roll /\ roll < three + two) => TierOf(tTarget) = 2
             /\ three + two <= roll => TierOf(tTarget) = 1
             /\ c >= 8 => TierOf(tTarget) # 1
    /\ (tTarget = NullMol /\ tInput.clearCount \in { 6, 7 }) =>
         \A tier \in 1..3 : \E roll \in BandRolls :
             TierOf(selectTarget(tInput.clearCount, tInput.prevName, <<>>,
                                 [roll |-> roll, draws |-> tInput.rnd.draws])) = tier

\* at seven clears a roll of at least 88 returned a tier-1 molecule after a
\* redraw
C36_Witness ==
    /\ tInput.clearCount = 7
    /\ tInput.rnd.roll = 88
    /\ tInput.prevName = "ethane"
    /\ tInput.rnd.draws = << 0, 1 >>
    /\ TierOf(tTarget) = 1

----------------------------------------------------------------------------
(* Claim C40 about the garbage queue (SpecSync) *)

\* the event is in some client's copy of the queue or in a value on its way to
\* a client
StillQueued(e) ==
    \/ \E p \in Players : SeqContains(garbageQueue[p], e)
    \/ \E m \in net : SeqContains(m.value, e)

\* the events have pairwise distinct ids and each is addressed to an opponent
\* of its sender
OrdinaryEvents ==
    /\ \A i, j \in DOMAIN sentEvents : i # j => sentEvents[i].id # sentEvents[j].id
    /\ \A i \in DOMAIN sentEvents : sentEvents[i].toPlayerId # sentEvents[i].fromPlayerId

----------------------------------------------------------------------------
(* Claim C37 about the lobby (SpecLobby) *)

MemberIds(l) == { l.players[k].playerId : k \in DOMAIN l.players }

LobbySlotsOK(l) ==
    /\ Len(l.players) <= 4
    /\ \A i, j \in DOMAIN l.players :
          i # j => /\ l.players[i].slot # l.players[j].slot
                   /\ l.players[i].playerId # l.players[j].playerId
    /\ \A i \in DOMAIN l.players : l.players[i].slot \in 0..3
    /\ l.players # <<>> => l.hostId \in MemberIds(l)

\* C37: after any sequence of joinLobby and leaveLobby calls the lobby holds at
\* most 4 players, in pairwise distinct slots of 0..3, and if it is not empty
\* hostId is one of them; a join of a member or into a full lobby changes
\* nothing, any other join adds the caller in the lowest free slot.
C37_LobbySlots ==
    /\ []LobbySlotsOK(lobby)
    /\ [][ lastSync'.op = "joinLobby" =>
             IF lastSync'.player \in MemberIds(lobby) \/ Len(lobby.players) = 4
             THEN lobby' = lobby
             ELSE /\ MemberIds(lobby') = MemberIds(lobby) \cup { lastSync'.player }
                  /\ \A k \in DOMAIN lobby.players : lobby'.players[k] = lobby.players[k]
                  /\ LET slot == getLocalSlot(lobby', lastSync'.player)
                     IN  /\ slot \in 0..3
                         /\ slot \notin usedSlots(lobby)
                         /\ \A i \in 0..(slot - 1) : i \in usedSlots(lobby) ]_vars

\* the host and the player of slot 1 have left a full lobby, and the fifth
\* player has joined in slot 0
C37_Witness ==
    /\ lastSync.op = "joinLobby"
    /\ Len(lobby.players) = 3
    /\ getLocalSlot(lobby, lastSync.player) = 0
    /\ usedSlots(lobby) = { 0, 2, 3 }
    /\ lobby.hostId = lobby.players[1].playerId
    /\ lobby.players[1].slot = 2

----------------------------------------------------------------------------
(* Claims C38, C39 about a game of three players (SpecGame) *)

\* C38 as stated: a call of startGame by a player who is not the host changes
\* neither the lobby nor the garbage queue nor a record of processed garbage
\* events.
C38_Original ==
    [][ (lastSync'.op = "startGame" /\ lastSync'.player # lobby.hostId) =>
          /\ lobby' = lobby
          /\ garbageQueue' = garbageQueue
          /\ processedGarbageIds' = processedGarbageIds ]_vars

StillPlaying == MemberIds(lobby) \ gameOvers

\* C39 as stated: when reportDeath has made the phase 'finished', at most one
\* player of the lobby has not had a game over, and winnerId is that player,
\* or the reporting player if there is none.
C39_Original ==
    (lastSync.op = "gameOver" /\ lobby.phase = "finished") =>
        /\ Cardinality(StillPlaying) <= 1
        /\ \A q \in StillPlaying : lobby.winnerId = q
        /\ StillPlaying = {} => lobby.winnerId = lastSync.player

====
